---- MODULE Spec2Model ----
(***************************************************************************)
(* OptiRide: the physics + pacing + simulation core.                       *)
(*   src/optiride/physics.py   relative_air_speed, power_required,         *)
(*                             speed_from_power                            *)
(*   src/optiride/optimizer.py pace_heuristic, simulate                    *)
(*   src/optiride/models.py    RiderBike, Environment                      *)
(*   src/optiride/fueling.py   calculate_w_prime_balance                   *)
(*   src/optiride/cli.py       the calls of pace_heuristic and simulate,   *)
(*                             optimize_start                              *)
(*   src/optiride/weather.py   met_wdir_to_uv                              *)
(*                                                                         *)
(* The source computes in IEEE doubles.  The model computes the same       *)
(* formulas in fixed point, every quantity an integer count of a unit:     *)
(*   speed, wind        1/SpeedScale m/s                                   *)
(*   force              mN                                                 *)
(*   power (physics)    mN * speed unit = 1/(1000*SpeedScale) W            *)
(*   slope (tangent)    1/SlopeScale                                       *)
(*   bearing            1/100 degree                                       *)
(*   crr 1/CrrScale, cda and air density 1/1000, efficiency 1/EffScale     *)
(*   mass kg, acceleration mm/s^2                                          *)
(* Every rounding is a floor of an exactly computed quotient, so a         *)
(* rounding moves a value by less than one unit.  TLC integers are 32 bit: *)
(* products are staged (MulDiv) so that no intermediate leaves that range. *)
(***************************************************************************)
EXTENDS Integers, Sequences, FiniteSets, TLC

----------------------------------------------------------------------------
(* Units *)

SpeedScale == 300
SlopeScale == 10000
CrrScale == 10000
EffScale == 1000
DirScale == 5
GravityScale == 100000

(* physics.py:8  GRAVITY = 9.80665, in 1/GravityScale m/s^2 *)
GRAVITY == 980665

(* physics.py:139  60.0 / 3.6: the upper search bound is 60 km/h *)
SearchHighKmh == 60

(* physics.py:142  range(50) *)
BisectionIterations == 50

----------------------------------------------------------------------------
(* Arithmetic helpers: what the float operators do, on scaled integers *)

Max(a, b) == IF a >= b THEN a ELSE b
Min(a, b) == IF a <= b THEN a ELSE b
Abs(a) == IF a >= 0 THEN a ELSE -a

(* floor(a*b/c) for b >= 0, c > 0 without forming a*b;                     *)
(* a = (a \div c)*c + (a % c) with 0 <= a % c < c, also for negative a.    *)
MulDiv(a, b, c) == (a \div c) * b + ((a % c) * b) \div c

RECURSIVE IsqrtBetween(_, _, _)
IsqrtBetween(n, lo, hi) ==
    IF lo >= hi THEN lo
    ELSE LET mid == (lo + hi + 1) \div 2
         IN  IF mid * mid <= n THEN IsqrtBetween(n, mid, hi)
                               ELSE IsqrtBetween(n, lo, mid - 1)

(* floor(sqrt(n)), 0 <= n < 2^31 *)
Isqrt(n) == IsqrtBetween(n, 0, 46340)

(* math.hypot(x, y) *)
Hypot(x, y) == Isqrt(x * x + y * y)

----------------------------------------------------------------------------
(* physics.py:32-36  math.sin / math.cos of math.radians(bearing_deg), in   *)
(* 1/DirScale, at the bearings whose sine and cosine are multiples of 1/5: *)
(* the four cardinal directions and the 3-4-5 directions.                  *)

SinDeg(b) ==
    CASE b = 0     -> 0
      [] b = 3687  -> 3
      [] b = 5313  -> 4
      [] b = 9000  -> 5
      [] b = 12687 -> 4
      [] b = 18000 -> 0
      [] b = 21687 -> -3
      [] b = 27000 -> -5
      [] b = 32313 -> -4

CosDeg(b) ==
    CASE b = 0     -> 5
      [] b = 3687  -> 4
      [] b = 5313  -> 3
      [] b = 9000  -> 0
      [] b = 12687 -> -3
      [] b = 18000 -> -5
      [] b = 21687 -> -4
      [] b = 27000 -> 0
      [] b = 32313 -> 3

(* relative_air_speed with the cosine used for both components *)
relative_air_speed_bothcos(v_ms, bearing_deg, env) ==
    LET direction_east  == CosDeg(bearing_deg)
        direction_north == CosDeg(bearing_deg)
        velocity_east   == v_ms * direction_east
        velocity_north  == v_ms * direction_north
        relative_east   == velocity_east - env.wind_u_ms * DirScale
        relative_north  == velocity_north - env.wind_v_ms * DirScale
    IN  Hypot(relative_east, relative_north) \div DirScale

(* relative_air_speed with the wind added to the rider's velocity *)
relative_air_speed_windadded(v_ms, bearing_deg, env) ==
    LET direction_east  == SinDeg(bearing_deg)
        direction_north == CosDeg(bearing_deg)
        velocity_east   == v_ms * direction_east
        velocity_north  == v_ms * direction_north
        relative_east   == velocity_east + env.wind_u_ms * DirScale
        relative_north  == velocity_north + env.wind_v_ms * DirScale
    IN  Hypot(relative_east, relative_north) \div DirScale

(* physics.py:11-46 *)
relative_air_speed(v_ms, bearing_deg, env) ==
    LET direction_east  == SinDeg(bearing_deg)
        direction_north == CosDeg(bearing_deg)
        velocity_east   == v_ms * direction_east
        velocity_north  == v_ms * direction_north
        relative_east   == velocity_east - env.wind_u_ms * DirScale
        relative_north  == velocity_north - env.wind_v_ms * DirScale
    IN  Hypot(relative_east, relative_north) \div DirScale

(* models.py:48-55 *)
mass_system_kg(rb) == rb.mass_rider_kg + rb.mass_bike_kg

(* physics.py:87  math.atan(slope_tan) enters only through its sine and    *)
(* cosine: slope/hyp and 1/hyp with hyp = sqrt(1 + slope^2), in 1/SlopeScale *)
SlopeHyp(slope_tan) == Hypot(slope_tan, SlopeScale)

(* total_mass * GRAVITY in mN *)
WeightmN(rb) == (mass_system_kg(rb) * GRAVITY) \div (GravityScale \div 1000)

(* power_gravity with the sign of the slope reversed *)
power_gravity_reversed(v_ms, slope_tan, rb) ==
    MulDiv(WeightmN(rb), -slope_tan, SlopeHyp(slope_tan)) * v_ms

(* physics.py:93  power_gravity *)
power_gravity(v_ms, slope_tan, rb) ==
    MulDiv(WeightmN(rb), slope_tan, SlopeHyp(slope_tan)) * v_ms

(* power_rolling with the rolling resistance left out *)
power_rolling_none(v_ms, slope_tan, rb) == 0

(* physics.py:94  power_rolling *)
power_rolling(v_ms, slope_tan, rb) ==
    ((MulDiv(WeightmN(rb), SlopeScale, SlopeHyp(slope_tan)) * rb.crr) \div CrrScale) * v_ms

(* power_aero with v_rel**2 in place of v_rel**3: the drag force at v_rel   *)
(* taken as a power, that is multiplied by 1 m/s                           *)
power_aero_squared(v_rel, rb, env) ==
    LET half_rho_cda == (env.air_density * rb.cda) \div 2
        drag_mN == MulDiv(v_rel * v_rel, half_rho_cda,
                          (SpeedScale * SpeedScale) \div 10) \div 10000
    IN  drag_mN * SpeedScale

(* physics.py:95  power_aero = 0.5 * air_density * cda * v_rel**3           *)
(* 0.5 * air_density * cda is in 1/10^6 kg/m; the drag in mN is that times *)
(* v_rel^2 / (SpeedScale^2 * 1000), divided in two stages                  *)
power_aero(v_rel, rb, env) ==
    LET half_rho_cda == (env.air_density * rb.cda) \div 2
        drag_mN == MulDiv(v_rel * v_rel, half_rho_cda,
                          (SpeedScale * SpeedScale) \div 10) \div 10000
    IN  drag_mN * v_rel

(* physics.py:96  power_acceleration *)
power_acceleration(v_ms, acc_ms2, rb) ==
    mass_system_kg(rb) * acc_ms2 * v_ms

(* physics.py:98-101  the sum of the four terms, before the efficiency *)
power_sum(v_ms, slope_tan, bearing_deg, rb, env, acc_ms2) ==
    power_gravity(v_ms, slope_tan, rb)
    + power_rolling(v_ms, slope_tan, rb)
    + power_aero(relative_air_speed(v_ms, bearing_deg, env), rb, env)
    + power_acceleration(v_ms, acc_ms2, rb)

(* physics.py:99-101  power_total *)
power_total(v_ms, slope_tan, bearing_deg, rb, env, acc_ms2) ==
    MulDiv(power_sum(v_ms, slope_tan, bearing_deg, rb, env, acc_ms2),
           EffScale, rb.drivetrain_eff)

(* power_required without the clamp of physics.py:103 *)
power_required_noclamp(v_ms, slope_tan, bearing_deg, rb, env, acc_ms2) ==
    power_total(v_ms, slope_tan, bearing_deg, rb, env, acc_ms2)

(* power_required with abs() in place of max(0.0, .) *)
power_required_abs(v_ms, slope_tan, bearing_deg, rb, env, acc_ms2) ==
    Abs(power_total(v_ms, slope_tan, bearing_deg, rb, env, acc_ms2))

(* physics.py:49-103 *)
power_required(v_ms, slope_tan, bearing_deg, rb, env, acc_ms2) ==
    Max(0, power_total(v_ms, slope_tan, bearing_deg, rb, env, acc_ms2))

(* physics.py:139 *)
SearchHigh == (SearchHighKmh * SpeedScale * 10) \div 36

(* the loop body with the two branches exchanged *)
BisectStep_swapped(br, power_w, slope_tan, bearing_deg, rb, env) ==
    LET v_mid == (br[1] + br[2]) \div 2
        power_mid == power_required(v_mid, slope_tan, bearing_deg, rb, env, 0)
    IN  IF power_mid > power_w THEN <<v_mid, br[2]>> ELSE <<br[1], v_mid>>

(* physics.py:143-149  one pass of the loop body, on the bracket <<lo, hi>> *)
BisectStep(br, power_w, slope_tan, bearing_deg, rb, env) ==
    LET v_mid == (br[1] + br[2]) \div 2
        power_mid == power_required(v_mid, slope_tan, bearing_deg, rb, env, 0)
    IN  IF power_mid > power_w THEN <<br[1], v_mid>> ELSE <<v_mid, br[2]>>

(* physics.py:142-149  the loop: n passes are left.  The loop body is a    *)
(* function of the bracket alone, so once a pass leaves the bracket        *)
(* unchanged every later pass does too, and the remaining passes are not   *)
(* evaluated again.                                                        *)
RECURSIVE Bisect(_, _, _, _, _, _, _)
Bisect(n, br, power_w, slope_tan, bearing_deg, rb, env) ==
    IF n = 0 THEN br
    ELSE LET next == BisectStep(br, power_w, slope_tan, bearing_deg, rb, env)
         IN  IF next = br THEN br
             ELSE Bisect(n - 1, next, power_w, slope_tan, bearing_deg, rb, env)

(* speed_from_power with range(5) in place of range(50) *)
speed_from_power_range5(power_w, slope_tan, bearing_deg, rb, env) ==
    LET br == Bisect(5, <<0, SearchHigh>>,
                     power_w, slope_tan, bearing_deg, rb, env)
    IN  (br[1] + br[2]) \div 2

(* physics.py:106-151 *)
speed_from_power(power_w, slope_tan, bearing_deg, rb, env) ==
    LET br == Bisect(BisectionIterations, <<0, SearchHigh>>,
                     power_w, slope_tan, bearing_deg, rb, env)
    IN  (br[1] + br[2]) \div 2

----------------------------------------------------------------------------
(* Optional[float] of models.py:43-44: None is << >>, a value x is <<x>>.   *)

None == << >>
Some(x) == <<x>>

(* Python truthiness of an Optional[float]: None and 0.0 are false *)
Truthy(o) == o # None /\ o[1] # 0

----------------------------------------------------------------------------
(* State *)

VARIABLES
    rb,           \* RiderBike of the run (models.py:38-46)
    env,          \* Environment of the run (models.py:75-77)
    slope_tan,    \* physics calls: the slope argument
    bearing_deg,  \* physics calls: the bearing argument
    call,         \* physics calls: the latest call, its arguments and result
    last,         \* physics calls: the call before it
    dist_m,       \* pace_heuristic: the distance series
    slope,        \* pace_heuristic: the slope series
    P_flat,       \* pace_heuristic: flat target power (W)
    up_mult,      \* pace_heuristic: climbing multiplier (percent)
    down_mult,    \* pace_heuristic: descending multiplier (percent)
    max_delta_w,  \* pace_heuristic: largest step between samples (W)
    pc,           \* pace_heuristic: where the call stands
    P,            \* pace_heuristic: the power series P (1/PaceScale W)
    i,            \* pace_heuristic: the loop index (0-based, as in the source)
    wbal,         \* pace_heuristic: the guard's balance (1/(PaceScale*TimeScale) J)
    P_smooth,     \* history: P as the smoothing loop left it
    wbal_hist,    \* history: the balance after each guarded sample
    bearings_deg, \* simulate: the bearing series (1/100 degree)
    mem,          \* simulate: the arrays it holds by reference, [dtype, data]
    P_target,     \* simulate: the power series argument, a reference into mem
    v_ref,        \* simulate: the local v, a reference into mem (0: unbound)
    dt_ref,       \* simulate: the local dt, a reference into mem (0: unbound)
    sim_ds,       \* simulate: the local ds (m)
    T,            \* simulate: the returned total time (ms)
    work_J,       \* simulate: the returned total work (mJ)
    spc,          \* simulate: where the call stands
    given,        \* history: the arguments as they were when the call began
    log,          \* history: the calls that returned, arguments and results
    wpb,          \* calculate_w_prime_balance: its arguments
    w_bal,        \* calculate_w_prime_balance: the local w_bal (J)
    fpc,          \* calculate_w_prime_balance: where the call stands
    fret,         \* calculate_w_prime_balance: the returned series (1/FracScale)
    power_w,      \* speed_from_power: the power argument (1/WattUnits W)
    v_low,        \* speed_from_power: the local v_low, <<units, 2^-24, 2^-48>>
    v_high,       \* speed_from_power: the local v_high, likewise
    n_pass,       \* speed_from_power: the passes of the loop made so far
    v_ret,        \* speed_from_power: the returned speed, likewise
    bpc,          \* speed_from_power: where the call stands
    start_hour,   \* optimize_start: args.start_hour
    end_hour,     \* optimize_start: args.end_hour
    hourly,       \* optimize_start: the hourly weather series of the forecast
    hours,        \* optimize_start: the list hours
    hr,           \* optimize_start: the loop variable hr (index into hours)
    results,      \* optimize_start: the list results
    best,         \* optimize_start: the local best, None or a tuple
    out,          \* optimize_start: the dictionary written to the JSON file
    exported,     \* optimize_start: the power series handed to the exports
    opc           \* optimize_start: where the command stands

physVars == <<slope_tan, bearing_deg, call, last>>
paceVars == <<dist_m, slope, P_flat, up_mult, down_mult, max_delta_w,
              pc, P, i, wbal, P_smooth, wbal_hist>>
paceInputs == <<dist_m, slope, P_flat, up_mult, down_mult, max_delta_w>>
paceLocals == <<pc, P, wbal, P_smooth, wbal_hist>>
simVars == <<bearings_deg, mem, P_target, v_ref, dt_ref, sim_ds, T, work_J,
             spc, given, log>>
fuelVars == <<wpb, w_bal, fpc, fret>>
bisVars == <<power_w, v_low, v_high, n_pass, v_ret, bpc>>
scanVars == <<start_hour, end_hour, hourly, hours, hr, results, best, out,
              exported, opc>>
vars == <<rb, env, physVars, paceVars, simVars, fuelVars, bisVars, scanVars>>

----------------------------------------------------------------------------
(* Inputs of the physics calls *)

NSpeeds == 5
NPowers == 4
PowerStepW == 100

StandardRider ==
    [mass_rider_kg |-> 72, mass_bike_kg |-> 8, crr |-> 35, cda |-> 300,
     drivetrain_eff |-> 970, cp |-> None, w_prime_j |-> None]

LightRider ==
    [mass_rider_kg |-> 60, mass_bike_kg |-> 7, crr |-> 50, cda |-> 250,
     drivetrain_eff |-> 1000, cp |-> None, w_prime_j |-> None]

PhysicsRiders == {StandardRider, LightRider}

(* wind vectors <<wind_u_ms, wind_v_ms>>: calm, 5 m/s to the north and to   *)
(* the south, 2 m/s to the east, 2 m/s along and against bearing 36.87,    *)
(* and the cross wind of tests/conftest.py:35-39                           *)
Winds == { <<0, 0>>, <<0, 5 * SpeedScale>>, <<0, -5 * SpeedScale>>,
           <<2 * SpeedScale, 0>>, <<360, 480>>, <<-360, -480>>,
           <<3 * SpeedScale, -2 * SpeedScale>> }

Environments ==
    { [air_density |-> 1225, wind_u_ms |-> w[1], wind_v_ms |-> w[2]] : w \in Winds }

Bearings == {0, 3687, 9000, 18000}

Slopes == {-1000, -500, 0, 200, 500}

Speeds == { (k * SearchHigh) \div NSpeeds : k \in 0..NSpeeds }
          \cup {SpeedScale, 10 * SpeedScale, 15 * SpeedScale}

Accelerations == {-500, 0, 500}

WattUnits == 1000 * SpeedScale

Powers == { k * PowerStepW * WattUnits : k \in 0..NPowers }
          \cup {-50 * WattUnits, 200 * WattUnits, 3000 * WattUnits}

NoCall == [fn |-> "none", v_ms |-> 0, acc_ms2 |-> 0, power_w |-> 0, ret |-> 0]

(* no call of pace_heuristic is in progress *)
PaceIdle ==
    /\ dist_m = << >> /\ slope = << >>
    /\ P_flat = 0 /\ up_mult = 0 /\ down_mult = 0 /\ max_delta_w = 0
    /\ pc = "idle" /\ P = << >> /\ i = 0 /\ wbal = 0
    /\ P_smooth = << >> /\ wbal_hist = << >>

(* no call of speed_from_power is followed pass by pass *)
BisIdle ==
    /\ power_w = 0 /\ v_low = << >> /\ v_high = << >> /\ n_pass = 0
    /\ v_ret = << >> /\ bpc = "idle"

(* the command optimize-start is not running *)
ScanIdle ==
    /\ start_hour = 0 /\ end_hour = 0 /\ hourly = << >> /\ hours = << >>
    /\ hr = 0 /\ results = << >> /\ best = << >> /\ out = << >>
    /\ exported = << >> /\ opc = "idle"

(* no call of simulate was made *)
SimIdle ==
    /\ bearings_deg = << >> /\ mem = << >> /\ P_target = 0
    /\ v_ref = 0 /\ dt_ref = 0 /\ sim_ds = 0 /\ T = 0 /\ work_J = 0
    /\ spc = "idle" /\ given = << >> /\ log = << >>

(* no call of calculate_w_prime_balance was made *)
FuelIdle ==
    /\ wpb = << >> /\ w_bal = << >> /\ fpc = "idle" /\ fret = << >>

----------------------------------------------------------------------------
(* The physics calls.  A run fixes rider, environment, slope and bearing    *)
(* and makes at most two calls; the second call repeats the first function *)
(* with an argument at least as large, or feeds power_required's result to *)
(* speed_from_power.                                                       *)

InitPhysics ==
    /\ rb \in PhysicsRiders
    /\ env \in Environments
    /\ slope_tan \in Slopes
    /\ bearing_deg \in Bearings
    /\ call = NoCall
    /\ last = NoCall
    /\ PaceIdle
    /\ SimIdle
    /\ FuelIdle
    /\ BisIdle
    /\ ScanIdle

RelativeAirSpeedCall ==
    /\ call.fn = "none"
    /\ \E v \in Speeds :
         call' = [fn |-> "relative_air_speed", v_ms |-> v, acc_ms2 |-> 0,
                  power_w |-> 0, ret |-> relative_air_speed(v, bearing_deg, env)]
    /\ last' = call
    /\ UNCHANGED <<bisVars, scanVars,
                   rb, env, slope_tan, bearing_deg, paceVars, simVars, fuelVars>>

PowerRequiredCall ==
    /\ last.fn = "none"
    /\ call.fn \in {"none", "power_required"}
    /\ \E v \in Speeds, a \in Accelerations :
         /\ call.fn = "power_required" => (a = call.acc_ms2 /\ v >= call.v_ms)
         /\ call' = [fn |-> "power_required", v_ms |-> v, acc_ms2 |-> a,
                     power_w |-> 0,
                     ret |-> power_required(v, slope_tan, bearing_deg, rb, env, a)]
    /\ last' = call
    /\ UNCHANGED <<bisVars, scanVars,
                   rb, env, slope_tan, bearing_deg, paceVars, simVars, fuelVars>>

SpeedFromPowerCall ==
    /\ last.fn = "none"
    /\ \E p \in CASE call.fn = "none" -> Powers
                  [] call.fn = "speed_from_power" -> {q \in Powers : q >= call.power_w}
                  [] call.fn = "power_required" /\ call.acc_ms2 = 0 -> {call.ret}
                  [] OTHER -> {} :
         call' = [fn |-> "speed_from_power", v_ms |-> 0, acc_ms2 |-> 0,
                  power_w |-> p,
                  ret |-> speed_from_power(p, slope_tan, bearing_deg, rb, env)]
    /\ last' = call
    /\ UNCHANGED <<bisVars, scanVars,
                   rb, env, slope_tan, bearing_deg, paceVars, simVars, fuelVars>>

NextPhysics ==
    \/ RelativeAirSpeedCall
    \/ PowerRequiredCall
    \/ SpeedFromPowerCall

SpecPhysics == InitPhysics /\ [][NextPhysics]_vars

----------------------------------------------------------------------------
(* Properties of the physics calls *)

ZeroWind == env.wind_u_ms = 0 /\ env.wind_v_ms = 0

(* DirScale times the wind's component along the direction of travel:      *)
(* positive is a tailwind, negative a headwind                             *)
WindAlong == env.wind_u_ms * SinDeg(bearing_deg) + env.wind_v_ms * CosDeg(bearing_deg)

(* DirScale times the wind's component across the direction of travel *)
WindCross == env.wind_u_ms * CosDeg(bearing_deg) - env.wind_v_ms * SinDeg(bearing_deg)

(* the state after speed_from_power was given power_required's result *)
RoundTripDone ==
    /\ call.fn = "speed_from_power"
    /\ last.fn = "power_required"
    /\ last.acc_ms2 = 0
    /\ call.power_w = last.ret

(* |a - b| < 0.01 m/s *)
Within001(a, b) == Abs(a - b) * 100 < SpeedScale

(* C1, as claimed: for every speed v of the search interval and every      *)
(* slope, bearing, rider and environment, descents that clamp and non-zero *)
(* wind included, speed_from_power(power_required(v)) is within 0.01 m/s   *)
(* of v.                                                                   *)
C1_RoundTripAlways ==
    RoundTripDone => Within001(call.ret, last.v_ms)

(* C1, amended: the round trip is within 0.01 m/s of v when slope >= 0 and *)
(* the wind has no tailwind component, and, in calm air on any slope, when *)
(* power_required(v) > 0 (the clamp did not act).                          *)
C1_RoundTrip ==
    ( /\ RoundTripDone
      /\ \/ (slope_tan >= 0 /\ WindAlong <= 0)
         \/ (ZeroWind /\ last.ret > 0) )
    => Within001(call.ret, last.v_ms)

(* C1 witness: a round trip on a descent in calm air from a positive power *)
C1_Witness ==
    /\ RoundTripDone
    /\ ZeroWind
    /\ slope_tan < 0
    /\ last.v_ms > 0
    /\ last.ret > 0
    /\ Within001(call.ret, last.v_ms)

(* two calls of power_required that differ in the speed alone, the second  *)
(* at least as fast                                                        *)
PowerRequiredTwice ==
    /\ call.fn = "power_required"
    /\ last.fn = "power_required"
    /\ last.acc_ms2 = call.acc_ms2
    /\ last.v_ms <= call.v_ms

(* C2, as claimed: for fixed slope, bearing, rider and environment, any    *)
(* wind vector, power_required is non-decreasing in speed.                 *)
C2_MonotoneAnyWind ==
    (PowerRequiredTwice /\ call.acc_ms2 = 0) => last.ret <= call.ret

(* C2, amended: power_required is non-decreasing in speed in calm air (any *)
(* slope and acceleration), and when the wind has no tailwind component    *)
(* and slope and acceleration are >= 0.                                    *)
C2_MonotoneInSpeed ==
    ( /\ PowerRequiredTwice
      /\ \/ ZeroWind
         \/ (WindAlong <= 0 /\ slope_tan >= 0 /\ call.acc_ms2 >= 0) )
    => last.ret <= call.ret

(* C2 witness: two speeds in a headwind on a climb, the faster one needing *)
(* strictly more power                                                     *)
C2_Witness ==
    /\ PowerRequiredTwice
    /\ WindAlong < 0
    /\ slope_tan > 0
    /\ call.acc_ms2 = 0
    /\ last.v_ms < call.v_ms
    /\ last.ret < call.ret

(* C3: for fixed slope, bearing, rider and environment, speed_from_power   *)
(* is non-decreasing in power, whatever the shape of power_required.       *)
C3_MonotoneInPower ==
    ( /\ call.fn = "speed_from_power"
      /\ last.fn = "speed_from_power"
      /\ last.power_w <= call.power_w )
    => last.ret <= call.ret

(* C3 witness: two powers under a tailwind (power_required is not monotone *)
(* there), the larger giving the strictly larger speed                     *)
C3_Witness ==
    /\ call.fn = "speed_from_power"
    /\ last.fn = "speed_from_power"
    /\ WindAlong > 0
    /\ last.power_w < call.power_w
    /\ last.ret < call.ret

(* C4, as claimed: due north at 10 m/s, wind_u_ms = 0: wind_v_ms = +5      *)
(* gives a relative air speed of 15 m/s, wind_v_ms = -5 gives 5 m/s.       *)
C4_HeadwindIsPositiveV ==
    ( /\ call.fn = "relative_air_speed"
      /\ bearing_deg = 0
      /\ call.v_ms = 10 * SpeedScale
      /\ env.wind_u_ms = 0 )
    => /\ env.wind_v_ms = 5 * SpeedScale => call.ret = 15 * SpeedScale
       /\ env.wind_v_ms = -5 * SpeedScale => call.ret = 5 * SpeedScale

(* C5: in calm air relative_air_speed(v, bearing, env) = v, for every      *)
(* speed and bearing.                                                      *)
C5_ZeroWindIdentity ==
    (call.fn = "relative_air_speed" /\ ZeroWind) => call.ret = call.v_ms

(* C5 witness: calm air, a bearing off the axes, 10 m/s *)
C5_Witness ==
    /\ call.fn = "relative_air_speed"
    /\ ZeroWind
    /\ bearing_deg = 3687
    /\ call.v_ms = 10 * SpeedScale
    /\ call.ret = 10 * SpeedScale

(* relative_air_speed was called at a positive speed with a wind parallel  *)
(* to the direction of travel                                              *)
ParallelWindCall ==
    /\ call.fn = "relative_air_speed"
    /\ call.v_ms > 0
    /\ WindCross = 0
    /\ WindAlong # 0

C7_NonNegativePower ==
    call.fn = "power_required" =>
        /\ call.ret >= 0
        /\ power_sum(call.v_ms, slope_tan, bearing_deg, rb, env, call.acc_ms2) < 0
               => call.ret = 0

(* C7 witness: 15 m/s down a 10 % descent in calm air: the terms sum to a  *)
(* negative power and the result is 0                                      *)
C7_Witness ==
    /\ call.fn = "power_required"
    /\ slope_tan = -1000
    /\ call.v_ms = 15 * SpeedScale
    /\ call.acc_ms2 = 0
    /\ ZeroWind
    /\ power_sum(call.v_ms, slope_tan, bearing_deg, rb, env, 0) < 0
    /\ call.ret = 0

(* the scenario of tests/test_physics.py and of the docstring example: the *)
(* standard rider (72 kg + 8 kg, CdA 0.30, Crr 0.0035, efficiency 0.97),   *)
(* flat, heading north, air density 1.225, no wind                         *)
FlatCalmScenario ==
    /\ rb = StandardRider
    /\ env = [air_density |-> 1225, wind_u_ms |-> 0, wind_v_ms |-> 0]
    /\ slope_tan = 0
    /\ bearing_deg = 0

(* power_required(10.0, 0.0, 0.0, rb, env) was called in the scenario *)
ScenarioPowerCall ==
    /\ FlatCalmScenario
    /\ call.fn = "power_required"
    /\ call.v_ms = 10 * SpeedScale
    /\ call.acc_ms2 = 0

(* C16: in the scenario power_required(10.0, 0.0, 0.0) is strictly between *)
(* 100 W and 300 W and speed_from_power(200.0, 0.0, 0.0) is strictly       *)
(* between 8.0 and 12.0 m/s.                                               *)
C16_ScenarioBounds ==
    /\ ScenarioPowerCall =>
          (100 * WattUnits < call.ret /\ call.ret < 300 * WattUnits)
    /\ ( /\ FlatCalmScenario
         /\ call.fn = "speed_from_power"
         /\ call.power_w = 200 * WattUnits )
       => (8 * SpeedScale < call.ret /\ call.ret < 12 * SpeedScale)

(* C16 witness: speed_from_power(200.0, 0.0, 0.0) was called in the        *)
(* scenario and returned between 9.5 and 10 m/s                            *)
C16_Witness ==
    /\ FlatCalmScenario
    /\ call.fn = "speed_from_power"
    /\ call.power_w = 200 * WattUnits
    /\ 19 * SpeedScale < 2 * call.ret
    /\ call.ret < 10 * SpeedScale

----------------------------------------------------------------------------
(* Two calls of one physics function that differ in the slope alone, the   *)
(* second at least as steep.  Each call record carries its slope.          *)

(* a light rider on a surface with a rolling resistance coefficient of 0.5 *)
SandRider ==
    [mass_rider_kg |-> 33, mass_bike_kg |-> 7, crr |-> 5000, cda |-> 250,
     drivetrain_eff |-> 1000, cp |-> None, w_prime_j |-> None]

(* descents, flat and climbs up to 10 % for the standard rider; flat and   *)
(* slopes of 100 %, 200 % and 400 % for the rider on sand                  *)
SlopesOf(r) ==
    IF r = SandRider THEN {0, 10000, 20000, 40000}
                     ELSE Slopes \cup {1000}

InitSlope ==
    /\ rb \in {StandardRider, SandRider}
    /\ env \in { [air_density |-> 1225, wind_u_ms |-> w[1], wind_v_ms |-> w[2]] :
                   w \in { <<0, 0>>, <<0, 5 * SpeedScale>>, <<0, -5 * SpeedScale>> } }
    /\ slope_tan \in SlopesOf(rb)
    /\ bearing_deg \in {0, 9000}
    /\ call = NoCall
    /\ last = NoCall
    /\ PaceIdle
    /\ SimIdle
    /\ FuelIdle
    /\ BisIdle
    /\ ScanIdle

(* speed_from_power(p, slope_tan, bearing_deg, rb, env) *)
SpeedFromPowerAtSlope ==
    /\ call.fn = "none"
    /\ \E p \in Powers :
         call' = [fn |-> "speed_from_power", v_ms |-> 0, acc_ms2 |-> 0,
                  power_w |-> p, slope_tan |-> slope_tan,
                  ret |-> speed_from_power(p, slope_tan, bearing_deg, rb, env)]
    /\ last' = call
    /\ UNCHANGED <<bisVars, scanVars,
                   rb, env, slope_tan, bearing_deg, paceVars, simVars, fuelVars>>

(* power_required(v, slope_tan, bearing_deg, rb, env) *)
PowerRequiredAtSlope ==
    /\ call.fn = "none"
    /\ \E s \in {SpeedScale, 5 * SpeedScale} :
         call' = [fn |-> "power_required", v_ms |-> s, acc_ms2 |-> 0,
                  power_w |-> 0, slope_tan |-> slope_tan,
                  ret |-> power_required(s, slope_tan, bearing_deg, rb, env, 0)]
    /\ last' = call
    /\ UNCHANGED <<bisVars, scanVars,
                   rb, env, slope_tan, bearing_deg, paceVars, simVars, fuelVars>>

(* the same call again, on a slope at least as steep *)
SteeperCall ==
    /\ call.fn # "none"
    /\ last.fn = "none"
    /\ \E s \in {x \in SlopesOf(rb) : x >= slope_tan} :
         /\ slope_tan' = s
         /\ call' = [call EXCEPT
                       !.slope_tan = s,
                       !.ret = IF call.fn = "speed_from_power"
                               THEN speed_from_power(call.power_w, s, bearing_deg, rb, env)
                               ELSE power_required(call.v_ms, s, bearing_deg, rb, env, 0)]
    /\ last' = call
    /\ UNCHANGED <<bisVars, scanVars,
                   rb, env, bearing_deg, paceVars, simVars, fuelVars>>

NextSlope ==
    \/ SpeedFromPowerAtSlope
    \/ PowerRequiredAtSlope
    \/ SteeperCall

SpecSlope == InitSlope /\ [][NextSlope]_vars

(* the call was made twice, the second time on a slope at least as steep *)
SlopePair ==
    /\ call.fn # "none"
    /\ last.fn = call.fn
    /\ last.slope_tan <= call.slope_tan

(* the steeper call: slower, and needing at least as much power *)
SteeperIsSlower ==
    /\ call.fn = "speed_from_power" => call.ret <= last.ret
    /\ call.fn = "power_required" => call.ret >= last.ret

(* C19, as claimed: for fixed power, bearing, rider and environment and    *)
(* any slopes s1 <= s2, speed_from_power on s2 is at most speed_from_power *)
(* on s1, and power_required at a fixed speed v > 0 on s2 is at least      *)
(* power_required on s1.                                                   *)
C19_AnySlope ==
    SlopePair => SteeperIsSlower

(* C19, amended: the same for slopes s1 <= s2 with s2 * crr <= 1.  Beyond  *)
(* slope 1 / crr the rolling term falls faster than the gravity term       *)
(* rises.                                                                  *)
C19_SteeperIsSlower ==
    (SlopePair /\ call.slope_tan * rb.crr <= SlopeScale * CrrScale)
    => SteeperIsSlower

(* C19 witness: the standard rider with 200 W in a headwind, strictly      *)
(* slower on a 5 % climb than on a 5 % descent                             *)
C19_Witness ==
    /\ SlopePair
    /\ rb = StandardRider
    /\ call.fn = "speed_from_power"
    /\ call.power_w = 200 * WattUnits
    /\ env.wind_v_ms = -5 * SpeedScale /\ bearing_deg = 0
    /\ last.slope_tan = -500 /\ call.slope_tan = 500
    /\ call.ret < last.ret
    /\ call.ret > 0

----------------------------------------------------------------------------
(* optimizer.py:7-41  pace_heuristic                                        *)
(* Powers are in 1/PaceScale W, so that P_flat (W) times a multiplier      *)
(* (percent) is exact; times are in 1/TimeScale s, so that ds / 8.0 is     *)
(* exact for a spacing in whole metres.                                    *)

PaceScale == 100
TimeScale == 80

(* optimizer.py:19-20  the slope thresholds 0.02 and -0.02 *)
SlopeUp == 200
SlopeDown == -200

(* optimizer.py:30  ds / 8.0 *)
NominalSpeed == 8

(* optimizer.py:40  the recovery factor 0.3, in tenths *)
RecoveryTenths == 3

(* the masks of optimizer.py:19-20 written slope >= 0.02 and slope <= -0.02 *)
InitialPower_inclusive(s, flat, up, down) ==
    LET p0 == flat * PaceScale
        p1 == IF s >= SlopeUp THEN (p0 * up) \div 100 ELSE p0
    IN  IF s <= SlopeDown THEN (p1 * down) \div 100 ELSE p1

(* optimizer.py:18-20  one sample of P after np.full_like and the two masks *)
InitialPower(s, flat, up, down) ==
    LET p0 == flat * PaceScale
        p1 == IF s > SlopeUp THEN (p0 * up) \div 100 ELSE p0
    IN  IF s < SlopeDown THEN (p1 * down) \div 100 ELSE p1

(* the smoothing with min() at both places *)
SmoothClamp_minmin(p, prev, delta) ==
    LET lo == prev - delta * PaceScale
        hi == prev + delta * PaceScale
    IN  Min(Min(p, lo), hi)

(* the smoothing without its lower bound *)
SmoothClamp_nolower(p, prev, delta) ==
    LET hi == prev + delta * PaceScale
    IN  Min(p, hi)

(* the smoothing with a window of twice max_delta_w *)
SmoothClamp_wide(p, prev, delta) ==
    LET lo == prev - 2 * delta * PaceScale
        hi == prev + 2 * delta * PaceScale
    IN  Min(Max(p, lo), hi)

(* optimizer.py:23-25  P[i] = min(max(P[i], lo), hi) *)
SmoothClamp(p, prev, delta) ==
    LET lo == prev - delta * PaceScale
        hi == prev + delta * PaceScale
    IN  Min(Max(p, lo), hi)

(* optimizer.py:27  if rb.cp and rb.w_prime_j *)
GuardActive(r) == Truthy(r.cp) /\ Truthy(r.w_prime_j)

(* optimizer.py:28-30  dt_guess, from the first two distances *)
DtGuess(d) == ((d[2] - d[1]) * TimeScale) \div NominalSpeed

(* optimizer.py:31-32  rb.w_prime_j and rb.cp in the guard's units *)
FullBalance(r) == r.w_prime_j[1] * PaceScale * TimeScale
CpOf(r) == r.cp[1] * PaceScale

(* the depletion of optimizer.py:36 without its floor at 0 *)
Deplete_nofloor(w, p, cp, dt) == w - (p - cp) * dt

(* optimizer.py:36  wbal = max(0.0, wbal - (p - cp) * dt_guess) *)
Deplete(w, p, cp, dt) == Max(0, w - (p - cp) * dt)

(* the recovery of optimizer.py:40 without its cap at W' *)
Recover_uncapped(w, p, cp, dt, full) ==
    w + ((cp - p) * RecoveryTenths * dt) \div 10

(* optimizer.py:40  wbal = min(rb.w_prime_j, wbal + (cp - p) * 0.3 * dt_guess) *)
Recover(w, p, cp, dt, full) ==
    Min(full, w + ((cp - p) * RecoveryTenths * dt) \div 10)

(* the test of optimizer.py:37 written wbal < 0.0 *)
Exhausted_strict(w) == w < 0

(* the test of optimizer.py:37 never true: no sample is capped *)
Exhausted_never(w) == FALSE

(* optimizer.py:37  if wbal <= 0.0 *)
Exhausted(w) == w <= 0

(* optimizer.py:18-20 *)
PaceStart ==
    /\ pc = "start"
    /\ P' = [k \in 1..Len(slope) |-> InitialPower(slope[k], P_flat, up_mult, down_mult)]
    /\ i' = 1
    /\ pc' = "smooth"
    /\ UNCHANGED <<bisVars, scanVars,
                   rb, env, physVars, simVars, fuelVars, paceInputs, wbal, P_smooth, wbal_hist>>

(* optimizer.py:22-25  one pass of the smoothing loop *)
SmoothStep ==
    /\ pc = "smooth"
    /\ i < Len(P)
    /\ P' = [P EXCEPT ![i + 1] = SmoothClamp(P[i + 1], P[i], max_delta_w)]
    /\ i' = i + 1
    /\ UNCHANGED <<bisVars, scanVars,
                   rb, env, physVars, simVars, fuelVars, paceInputs, pc, wbal, P_smooth, wbal_hist>>

(* optimizer.py:27-32  the smoothing loop is over: the guard is entered,   *)
(* skipped (line 41 returns P), or dist_m[1] raises IndexError             *)
SmoothDone ==
    /\ pc = "smooth"
    /\ i >= Len(P)
    /\ P_smooth' = P
    /\ IF ~GuardActive(rb)
       THEN pc' = "done" /\ UNCHANGED <<i, wbal>>
       ELSE IF Len(dist_m) < 2
       THEN pc' = "error" /\ UNCHANGED <<i, wbal>>
       ELSE pc' = "guard" /\ i' = 0 /\ wbal' = FullBalance(rb)
    /\ UNCHANGED <<bisVars, scanVars,
                   rb, env, physVars, simVars, fuelVars, paceInputs, P, wbal_hist>>

(* optimizer.py:33-40  one pass of the guard loop *)
GuardStep ==
    /\ pc = "guard"
    /\ i < Len(P)
    /\ LET p == P[i + 1]
           cp == CpOf(rb)
           dt_guess == DtGuess(dist_m)
       IN  IF p > cp
           THEN LET w == Deplete(wbal, p, cp, dt_guess)
                IN  /\ wbal' = w
                    /\ P' = IF Exhausted(w) THEN [P EXCEPT ![i + 1] = cp] ELSE P
           ELSE /\ wbal' = Recover(wbal, p, cp, dt_guess, FullBalance(rb))
                /\ P' = P
    /\ wbal_hist' = Append(wbal_hist, wbal')
    /\ i' = i + 1
    /\ UNCHANGED <<bisVars, scanVars,
                   rb, env, physVars, simVars, fuelVars, paceInputs, pc, P_smooth>>

(* optimizer.py:41  return P *)
GuardDone ==
    /\ pc = "guard"
    /\ i >= Len(P)
    /\ pc' = "done"
    /\ UNCHANGED <<bisVars, scanVars,
                   rb, env, physVars, simVars, fuelVars, paceInputs, P, i, wbal, P_smooth, wbal_hist>>

----------------------------------------------------------------------------
(* Inputs of pace_heuristic *)

MaxN == 9
ShortN == 3

RECURSIVE SeqsOfLen(_, _)
SeqsOfLen(S, n) ==
    IF n = 0 THEN { << >> }
    ELSE { Append(q, x) : q \in SeqsOfLen(S, n - 1), x \in S }

(* a distance series of n samples, ds metres apart *)
UniformDist(n, ds) == [k \in 1..n |-> (k - 1) * ds]

WithCp(r, cp, w) == [r EXCEPT !.cp = cp, !.w_prime_j = w]

(* long routes of climbs, flats and descents under one setting: CP 200 W,  *)
(* W' 45 J, 232 W on climbs, 142 W on descents, steps of at most 30 W,     *)
(* 8 m spacing                                                             *)
LongRoute ==
    /\ \E n \in 1..MaxN : slope \in SeqsOfLen({-300, 0, 300}, n)
    /\ dist_m = UniformDist(Len(slope), 8)
    /\ P_flat = 200 /\ up_mult = 116 /\ down_mult = 71 /\ max_delta_w = 30
    /\ rb = WithCp(StandardRider, Some(200), Some(45))

(* short routes over every slope class and the two thresholds, with the    *)
(* default and other settings, CP and W' known, unknown, zero and negative *)
ShortRoute ==
    /\ \E n \in 0..ShortN : slope \in SeqsOfLen({-300, -200, 0, 200, 300}, n)
    /\ \E ds \in {8, 80} : dist_m = UniformDist(Len(slope), ds)
    /\ P_flat \in {0, 200}
    /\ \E m \in { <<110, 75>>, <<150, 0>> } : up_mult = m[1] /\ down_mult = m[2]
    /\ max_delta_w \in {0, 30}
    /\ rb \in { WithCp(StandardRider, None, None),
                WithCp(StandardRider, Some(200), None),
                WithCp(StandardRider, Some(200), Some(45)),
                WithCp(StandardRider, Some(0), Some(45)),
                WithCp(StandardRider, Some(200), Some(0)),
                WithCp(StandardRider, Some(-50), Some(45)) }

InitPace ==
    /\ env = [air_density |-> 1225, wind_u_ms |-> 0, wind_v_ms |-> 0]
    /\ slope_tan = 0 /\ bearing_deg = 0 /\ call = NoCall /\ last = NoCall
    /\ LongRoute \/ ShortRoute
    /\ pc = "start" /\ P = << >> /\ i = 0 /\ wbal = 0
    /\ P_smooth = << >> /\ wbal_hist = << >>
    /\ SimIdle
    /\ FuelIdle
    /\ BisIdle
    /\ ScanIdle

NextPace ==
    \/ PaceStart
    \/ SmoothStep
    \/ SmoothDone
    \/ GuardStep
    \/ GuardDone

SpecPace == InitPace /\ [][NextPace]_vars

----------------------------------------------------------------------------
(* Properties of pace_heuristic *)

(* pace_heuristic returned, and its guard pass ran *)
GuardRan == pc = "done" /\ GuardActive(rb)

(* the guard capped sample k (1-based): it was above CP after smoothing    *)
(* and is CP in the output; a sample above CP that the guard left alone    *)
(* keeps its smoothed value, which is not CP                               *)
Capped(k) == GuardRan /\ P_smooth[k] > CpOf(rb) /\ P[k] = CpOf(rb)

(* samples k-1 and k of the output differ by more than max_delta_w *)
Jump(k) == Abs(P[k] - P[k - 1]) > max_delta_w * PaceScale

(* the first sample the guard capped, 0 when it capped none *)
FirstCapped ==
    IF \E k \in 1..Len(P) : Capped(k)
    THEN CHOOSE k \in 1..Len(P) : Capped(k) /\ \A j \in 1..(k - 1) : ~Capped(j)
    ELSE 0

(* C8, as claimed: in the returned series every pair of consecutive        *)
(* samples differs by at most max_delta_w, except possibly the one pair    *)
(* that ends at the first sample the guard capped; a later capped run      *)
(* introduces no further exception.                                        *)
C8_OnlyFirstCappedJumps ==
    pc = "done" => \A k \in 2..Len(P) : Jump(k) => k = FirstCapped

(* C8, amended: every pair of consecutive samples differs by at most       *)
(* max_delta_w, except possibly the pairs that enter a capped run: the     *)
(* second sample capped at CP by the guard, the first not capped.  Each    *)
(* capped run can add one such pair.  Without the guard no pair exceeds    *)
(* max_delta_w.                                                            *)
C8_PacingBounds ==
    pc = "done" =>
        \A k \in 2..Len(P) : Jump(k) => (Capped(k) /\ ~Capped(k - 1))

(* C8 witness: a returned series with two capped runs, a pair that exceeds *)
(* max_delta_w and pairs that do not                                       *)
C8_Witness ==
    /\ pc = "done"
    /\ \E a, b, c \in 2..Len(P) :
         /\ a < b /\ b < c
         /\ Capped(a) /\ ~Capped(b) /\ Capped(c)
         /\ Jump(a)
         /\ ~Jump(b)

(* C9: pace_heuristic returns one value per route sample; for P_flat >= 0, *)
(* multipliers >= 0, max_delta_w >= 0 and CP > 0 every value is >= 0,      *)
(* after the smoothing and after the guard.                                *)
C9_LengthAndSign ==
    /\ pc = "done" => Len(P) = Len(slope)
    /\ ( /\ pc \in {"guard", "done"}
         /\ P_flat >= 0 /\ up_mult >= 0 /\ down_mult >= 0 /\ max_delta_w >= 0
         /\ (rb.cp # None => rb.cp[1] > 0) )
       => /\ \A k \in 1..Len(P_smooth) : P_smooth[k] >= 0
          /\ \A k \in 1..Len(P) : P[k] >= 0

(* C9 witness: a returned series of three samples or more, some capped by  *)
(* the guard, one smoothed down from the sample before it                  *)
C9_Witness ==
    /\ pc = "done"
    /\ Len(P) >= 3
    /\ Len(P) = Len(slope)
    /\ \E k \in 1..Len(P) : Capped(k)
    /\ \E k \in 2..Len(P) :
         /\ P_smooth[k] = P_smooth[k - 1] - max_delta_w * PaceScale
         /\ P_smooth[k] > InitialPower(slope[k], P_flat, up_mult, down_mult)

RECURSIVE ExcessOver(_, _)
(* the sum of (power - CP) * dt_guess over the smoothed samples a..b *)
ExcessOver(a, b) ==
    IF a > b THEN 0
    ELSE (P_smooth[a] - CpOf(rb)) * DtGuess(dist_m) + ExcessOver(a + 1, b)

(* the balance the guard holds when it comes to sample k *)
BalanceBefore(k) == IF k = 1 THEN FullBalance(rb) ELSE wbal_hist[k - 1]

(* samples a..b are all above CP after smoothing *)
AboveCp(a, b) == \A n \in a..b : P_smooth[n] > CpOf(rb)

(* the last sample of the above-CP run that holds sample k *)
RunEnd(k) ==
    CHOOSE m \in k..Len(P) :
        AboveCp(k, m) /\ (m = Len(P) \/ P_smooth[m + 1] <= CpOf(rb))

(* C10: with CP and W' set, if the smoothed samples k..m are all above CP  *)
(* and their (power - CP) * dt_guess sum to the balance available at k or  *)
(* more, then at some j in k..m the balance is zero and every output       *)
(* sample from j to the end of that above-CP run is CP.                    *)
C10_GuardCaps ==
    GuardRan =>
        \A k \in 1..Len(P) : \A m \in k..Len(P) :
            (AboveCp(k, m) /\ ExcessOver(k, m) >= BalanceBefore(k))
            => \E j \in k..m :
                  /\ wbal_hist[j] = 0
                  /\ \A n \in j..RunEnd(k) : P[n] = CpOf(rb)

(* C10 witness: a run above CP that starts after a sample at or below CP,  *)
(* keeps some balance over its first samples, has used it all at sample j, *)
(* and is capped from j to its end, which lies beyond j                    *)
C10_Witness ==
    /\ GuardRan
    /\ \E k \in 2..Len(P) : \E j \in (k + 1)..(Len(P) - 1) :
         /\ P_smooth[k - 1] <= CpOf(rb)
         /\ AboveCp(k, j + 1)
         /\ ExcessOver(k, j) >= BalanceBefore(k)
         /\ wbal_hist[j - 1] > 0
         /\ P[k] = P_smooth[k]
         /\ wbal_hist[j] = 0
         /\ \A n \in j..RunEnd(k) : Capped(n)

(* the balance the guard rule gives after sample k: from the balance       *)
(* before k, the smoothed power of k, CP, W' and dt_guess                  *)
RuleBalance(k) ==
    LET p == P_smooth[k]
        prev == BalanceBefore(k)
        dt_guess == ((dist_m[2] - dist_m[1]) * TimeScale) \div 8
    IN  IF p > CpOf(rb)
        THEN IF prev - (p - CpOf(rb)) * dt_guess < 0 THEN 0
             ELSE prev - (p - CpOf(rb)) * dt_guess
        ELSE IF prev + ((CpOf(rb) - p) * 3 * dt_guess) \div 10 > FullBalance(rb)
             THEN FullBalance(rb)
             ELSE prev + ((CpOf(rb) - p) * 3 * dt_guess) \div 10

(* C21: with the guard active the samples are processed in index order     *)
(* with a balance that starts at W' and dt = (dist[1] - dist[0]) / 8.  A   *)
(* sample whose smoothed power p exceeds CP lowers the balance by          *)
(* (p - CP) * dt, floored at 0, and is replaced by CP exactly when the     *)
(* balance after that depletion is <= 0; a sample with p <= CP raises the  *)
(* balance by (CP - p) * 0.3 * dt, capped at W', and is left unchanged.    *)
(* Every output sample is its smoothed value or CP and is never larger     *)
(* than its smoothed value.                                                *)
C21_GuardRule ==
    /\ pc = "guard" => /\ Len(wbal_hist) = i
                       /\ wbal = BalanceBefore(i + 1)
                       /\ \A k \in (i + 1)..Len(P) : P[k] = P_smooth[k]
    /\ pc \in {"guard", "done"} /\ GuardActive(rb) =>
         \A k \in 1..Len(wbal_hist) :
            /\ wbal_hist[k] = RuleBalance(k)
            /\ IF P_smooth[k] > CpOf(rb) /\ wbal_hist[k] <= 0
               THEN P[k] = CpOf(rb)
               ELSE P[k] = P_smooth[k]
            /\ P[k] \in {P_smooth[k], CpOf(rb)}
            /\ P[k] <= P_smooth[k]
    /\ GuardRan => Len(wbal_hist) = Len(P)

(* C21 witness: a returned series whose guard lowered the balance without  *)
(* emptying it on one sample, emptied it on a later one and capped that    *)
(* sample, and raised it again on a sample below CP                        *)
C21_Witness ==
    /\ GuardRan
    /\ \E a, b, c \in 1..Len(P) :
         /\ a < b /\ b < c
         /\ P_smooth[a] > CpOf(rb) /\ wbal_hist[a] > 0
         /\ wbal_hist[a] < BalanceBefore(a) /\ P[a] = P_smooth[a]
         /\ P_smooth[b] > CpOf(rb) /\ wbal_hist[b] = 0 /\ P[b] = CpOf(rb)
         /\ P_smooth[c] < CpOf(rb) /\ wbal_hist[c] > BalanceBefore(c)
         /\ P[c] = P_smooth[c]

(* C22, as claimed: the guard pass is applied whenever both CP and W' are  *)
(* set on the rider (not None), including when CP or W' equals 0: a        *)
(* returned call with both set has run the guard over every sample, and    *)
(* with W' = 0 every sample above CP is returned as CP.  It is skipped     *)
(* only when one of the two is None.                                       *)
C22_GuardWheneverSet ==
    pc = "done" =>
        IF rb.cp # None /\ rb.w_prime_j # None
        THEN /\ Len(wbal_hist) = Len(P)
             /\ rb.w_prime_j = Some(0) =>
                  \A k \in 1..Len(P) : P[k] <= CpOf(rb)
        ELSE wbal_hist = << >> /\ P = P_smooth

(* C22, what the code does: the guard pass runs exactly when CP and W' are *)
(* both set and both different from 0                                      *)
C22_GuardWhenTruthy ==
    pc = "done" =>
        IF /\ rb.cp # None /\ rb.w_prime_j # None
           /\ rb.cp[1] # 0 /\ rb.w_prime_j[1] # 0
        THEN Len(wbal_hist) = Len(P)
        ELSE wbal_hist = << >> /\ P = P_smooth

(* a returned call for a rider with CP 200 W and W' 0 J that left a        *)
(* sample above CP                                                         *)
C22_Witness ==
    /\ pc = "done"
    /\ rb.cp = Some(200) /\ rb.w_prime_j = Some(0)
    /\ \E k \in 1..Len(P) : P[k] > CpOf(rb)

RECURSIVE RecoveryOver(_, _)
(* the sum of (CP - power) * 0.3 * dt_guess over the smoothed samples a..b *)
RecoveryOver(a, b) ==
    IF a > b THEN 0
    ELSE ((CpOf(rb) - P_smooth[a]) * 3 * DtGuess(dist_m)) \div 10
         + RecoveryOver(a + 1, b)

(* samples a..b are all at or below CP after smoothing *)
SubCp(a, b) == \A n \in a..b : P_smooth[n] <= CpOf(rb)

(* C23: for W' > 0 the running balance of the guard pass is between 0 and  *)
(* W' after every sample; on a sample with power <= CP it does not         *)
(* decrease; over consecutive samples at or below CP whose recoveries sum  *)
(* to the missing balance or more it reaches W', and from W' a sample at   *)
(* or below CP leaves it at exactly W'.                                    *)
C23_BalanceBounds ==
    (pc \in {"guard", "done"} /\ GuardActive(rb) /\ rb.w_prime_j[1] > 0) =>
        /\ 0 <= wbal /\ wbal <= FullBalance(rb)
        /\ \A k \in 1..Len(wbal_hist) :
             /\ 0 <= wbal_hist[k] /\ wbal_hist[k] <= FullBalance(rb)
             /\ P_smooth[k] <= CpOf(rb) =>
                  /\ wbal_hist[k] >= BalanceBefore(k)
                  /\ BalanceBefore(k) = FullBalance(rb) =>
                       wbal_hist[k] = FullBalance(rb)
             /\ \A m \in k..Len(wbal_hist) :
                  ( /\ SubCp(k, m)
                    /\ RecoveryOver(k, m) >= FullBalance(rb) - BalanceBefore(k) )
                  => wbal_hist[m] = FullBalance(rb)

(* C23 witness: the balance is 0 after sample k, rises over samples below   *)
(* CP without reaching W' at first, reaches W' at sample m, and is still   *)
(* W' after the next sample                                                *)
C23_Witness ==
    /\ GuardRan /\ rb.w_prime_j[1] > 0
    /\ \E k \in 1..Len(P) : \E m \in (k + 3)..(Len(P) - 1) :
         /\ wbal_hist[k] = 0
         /\ SubCp(k + 1, m + 1)
         /\ wbal_hist[k + 1] > 0
         /\ wbal_hist[k + 2] > wbal_hist[k + 1]
         /\ wbal_hist[m - 1] < FullBalance(rb)
         /\ wbal_hist[m] = FullBalance(rb)
         /\ wbal_hist[m + 1] = FullBalance(rb)

(* sample k has not been through the smoothing loop yet *)
Unsmoothed(k) == pc = "smooth" /\ (k = 1 \/ k > i)

(* C24: before smoothing a sample's power is P_flat * up_mult when its     *)
(* slope is strictly greater than 0.02, P_flat * down_mult when its slope  *)
(* is strictly less than -0.02, and exactly P_flat when its slope lies in  *)
(* [-0.02, 0.02], boundaries included: one multiplier at most, applied     *)
(* once to the flat value.                                                 *)
C24_SlopeClasses ==
    pc = "smooth" =>
        /\ Len(P) = Len(slope)
        /\ \A k \in 1..Len(P) : Unsmoothed(k) =>
             /\ slope[k] > 200 => P[k] = (P_flat * PaceScale * up_mult) \div 100
             /\ slope[k] < -200 => P[k] = (P_flat * PaceScale * down_mult) \div 100
             /\ (-200 <= slope[k] /\ slope[k] <= 200) => P[k] = P_flat * PaceScale

(* C24 witness: a series fresh from the two masks with a sample on a       *)
(* threshold, a climb and a descent, under multipliers that change the     *)
(* power                                                                   *)
C24_Witness ==
    /\ pc = "smooth" /\ i = 1
    /\ P_flat = 200 /\ up_mult = 110 /\ down_mult = 75
    /\ \E a, b, c \in 1..Len(P) :
         /\ slope[a] \in {-200, 200} /\ P[a] = 200 * PaceScale
         /\ slope[b] = 300 /\ P[b] = 220 * PaceScale
         /\ slope[c] = -300 /\ P[c] = 150 * PaceScale

(* the multiplier-adjusted value of sample k *)
Adjusted(k) == InitialPower(slope[k], P_flat, up_mult, down_mult)

(* x clamped to [prev - max_delta_w, prev + max_delta_w] *)
ClampedTo(x, prev) ==
    IF x < prev - max_delta_w * PaceScale THEN prev - max_delta_w * PaceScale
    ELSE IF x > prev + max_delta_w * PaceScale THEN prev + max_delta_w * PaceScale
    ELSE x

(* series q is smoothed up to sample n: sample 1 keeps its adjusted value, *)
(* each later sample is its adjusted value clamped around the smoothed     *)
(* sample before it                                                        *)
SmoothedUpTo(q, n) ==
    \A k \in 1..n :
        q[k] = IF k = 1 THEN Adjusted(1) ELSE ClampedTo(Adjusted(k), q[k - 1])

(* C25: after the smoothing pass and before the guard, sample 0 keeps its  *)
(* multiplier-adjusted value and each sample i >= 1 is its adjusted value  *)
(* clamped to [s[i-1] - max_delta_w, s[i-1] + max_delta_w], s[i-1] being   *)
(* the smoothed sample before it; a pass of the smoothing loop changes no  *)
(* sample it has already processed.                                        *)
C25_ForwardSmoothing ==
    /\ [](pc = "smooth" => SmoothedUpTo(P, Min(i, Len(P))))
    /\ [](pc \in {"guard", "done"} => SmoothedUpTo(P_smooth, Len(P_smooth)))
    /\ [][pc = "smooth" => \A k \in 1..Min(i, Len(P)) : P'[k] = P[k]]_vars

(* C25 witness: a smoothed series whose second sample was raised to the    *)
(* lower end of its window and whose third was lowered to the upper end of *)
(* the window around the smoothed second                                   *)
C25_Witness ==
    /\ pc \in {"guard", "done"}
    /\ Len(P_smooth) >= 3
    /\ max_delta_w > 0
    /\ P_smooth[1] = Adjusted(1)
    /\ Adjusted(2) < P_smooth[1] - max_delta_w * PaceScale
    /\ P_smooth[2] = P_smooth[1] - max_delta_w * PaceScale
    /\ Adjusted(3) > P_smooth[2] + max_delta_w * PaceScale
    /\ P_smooth[3] = P_smooth[2] + max_delta_w * PaceScale
    /\ P_smooth[3] # Adjusted(1) + max_delta_w * PaceScale

RECURSIVE Rebalance(_)
(* the balance after sample k recomputed from the returned series P: from  *)
(* W', with the dt_guess, the depletion and the recovery of the guard      *)
Rebalance(k) ==
    IF k = 0 THEN FullBalance(rb)
    ELSE LET prev == Rebalance(k - 1)
         IN  IF P[k] > CpOf(rb)
             THEN Deplete(prev, P[k], CpOf(rb), DtGuess(dist_m))
             ELSE Recover(prev, P[k], CpOf(rb), DtGuess(dist_m), FullBalance(rb))

(* C28: the pacing output never overdraws W'.  For W' > 0 the balance      *)
(* recomputed from the series the guard pass returned is strictly positive *)
(* after every sample and at least the guard's own balance at that sample. *)
C28_NeverOverdraws ==
    (GuardRan /\ rb.w_prime_j[1] > 0) =>
        \A k \in 1..Len(P) :
            /\ Rebalance(k) > 0
            /\ Rebalance(k) >= wbal_hist[k]

(* C28 witness: a returned series with a capped sample, where the guard's  *)
(* balance is 0 and the recomputed one is not, and a later sample below CP *)
(* where the recomputed balance is still the larger one                    *)
C28_Witness ==
    /\ GuardRan /\ rb.w_prime_j[1] > 0
    /\ \E k \in 1..Len(P) : \E m \in (k + 1)..Len(P) :
         /\ Capped(k) /\ wbal_hist[k] = 0 /\ Rebalance(k) > 0
         /\ P[m] < CpOf(rb)
         /\ Rebalance(m) > wbal_hist[m]
         /\ Rebalance(m) < FullBalance(rb)

----------------------------------------------------------------------------
(* optimizer.py:44-62  simulate                                             *)
(* numpy arrays are objects: an argument names the caller's array, a write *)
(* through a name changes the array every other name of it sees, and an    *)
(* array keeps its dtype, converting every value stored into it.  mem is   *)
(* the sequence of the arrays simulate holds, each [dtype, data]; P_target,*)
(* v_ref and dt_ref are indices into it.  Powers are in W, speeds in       *)
(* 1/SpeedScale m/s, durations in 1/TimeMs s, work in 1/TimeMs J.          *)

TimeMs == 1000

(* optimizer.py:59  the speed floor 0.01, in speed units *)
FloorSpeed == SpeedScale \div 100

(* float -> int64 as numpy stores it: truncation toward zero; unit is the  *)
(* count that stands for 1 *)
TruncTo(x, unit) ==
    IF x >= 0 THEN (x \div unit) * unit ELSE -(((-x) \div unit) * unit)

(* the value an array of the given dtype holds after x is stored into it *)
Cast(dtype, x, unit) == IF dtype = "int" THEN TruncTo(x, unit) ELSE x

(* the array np.zeros_like(a) creates: a's length and a's dtype *)
Zeros(a) == [dtype |-> a.dtype, data |-> [k \in 1..Len(a.data) |-> 0]]

(* a zeros_like that hands back the array it was given *)
zeros_like_view(m, a) == <<m, a>>

(* optimizer.py:53-54  np.zeros_like(m[a]): the memory with the new array  *)
(* in it, and the reference to the new array *)
zeros_like(m, a) == <<Append(m, Zeros(m[a])), Len(m) + 1>>

(* optimizer.py:59  ds / max(0.01, v[i]) *)
Duration(d, speed) == (d * TimeMs * SpeedScale) \div Max(FloorSpeed, speed)

RECURSIVE SumSeq(_)
SumSeq(q) == IF q = << >> THEN 0 ELSE Head(q) + SumSeq(Tail(q))

(* a total that adds to the total of the call before *)
TotalTime_accumulated(d) == T + SumSeq(d)

(* optimizer.py:60  dt.sum() *)
TotalTime(d) == SumSeq(d)

(* optimizer.py:61  float(np.sum(P_target * dt)) *)
TotalWork(p, d) == SumSeq([k \in 1..Len(p) |-> p[k] * d[k]])

(* optimizer.py:52-54 *)
SimStart ==
    /\ spc = "start"
    /\ IF Len(dist_m) < 2
       THEN /\ spc' = "IndexError"
            /\ UNCHANGED <<mem, v_ref, dt_ref, sim_ds, i>>
       ELSE LET a == zeros_like(mem, P_target)
                b == zeros_like(a[1], P_target)
            IN  /\ sim_ds' = dist_m[2] - dist_m[1]
                /\ mem' = b[1]
                /\ v_ref' = a[2]
                /\ dt_ref' = b[2]
                /\ i' = 0
                /\ spc' = "loop"
    /\ UNCHANGED <<bisVars, scanVars,
                   rb, env, physVars, paceInputs, paceLocals, fuelVars,
                   bearings_deg, P_target, T, work_J, given, log>>

(* optimizer.py:55-59  one pass of the loop *)
SimStep ==
    /\ spc = "loop"
    /\ i < Len(mem[P_target].data)
    /\ IF i + 1 > Len(slope) \/ i + 1 > Len(bearings_deg)
       THEN /\ spc' = "IndexError"
            /\ UNCHANGED <<mem, i>>
       ELSE LET k == i + 1
                speed == speed_from_power(mem[P_target].data[k] * WattUnits,
                                          slope[k], bearings_deg[k], rb, env)
                m1 == [mem EXCEPT ![v_ref].data[k] =
                          Cast(mem[v_ref].dtype, speed, SpeedScale)]
                m2 == [m1 EXCEPT ![dt_ref].data[k] =
                          Cast(m1[dt_ref].dtype,
                               Duration(sim_ds, m1[v_ref].data[k]), TimeMs)]
            IN  /\ mem' = m2
                /\ i' = i + 1
                /\ spc' = spc
    /\ UNCHANGED <<bisVars, scanVars,
                   rb, env, physVars, paceInputs, paceLocals, fuelVars,
                   bearings_deg, P_target, v_ref, dt_ref, sim_ds, T, work_J,
                   given, log>>

(* optimizer.py:60-62 *)
SimDone ==
    /\ spc = "loop"
    /\ i >= Len(mem[P_target].data)
    /\ T' = TotalTime(mem[dt_ref].data)
    /\ work_J' = TotalWork(mem[P_target].data, mem[dt_ref].data)
    /\ spc' = "done"
    /\ UNCHANGED <<bisVars, scanVars,
                   rb, env, physVars, paceInputs, paceLocals, fuelVars,
                   bearings_deg, mem, P_target, v_ref, dt_ref, sim_ds, i,
                   given, log>>

(* the arguments of simulate as they stand *)
SimArgs ==
    [fn |-> "simulate",
     dist_m |-> dist_m, slope |-> slope, bearings_deg |-> bearings_deg,
     P_target |-> mem[P_target], rb |-> rb, env |-> env]

----------------------------------------------------------------------------
(* Inputs of simulate: one call per run *)

SimN == 3

ConstSeq(n, x) == [k \in 1..n |-> x]

CalmAir == [air_density |-> 1225, wind_u_ms |-> 0, wind_v_ms |-> 0]

(* series of one length, 2..SimN samples a positive distance apart, powers *)
(* negative, zero and positive, held as a float array or as an int array   *)
SimWellFormed ==
    /\ \E n \in 2..SimN :
         /\ slope \in SeqsOfLen({-500, 500}, n)
         /\ \E b \in {0, 9000} : bearings_deg = ConstSeq(n, b)
         /\ \E d \in SeqsOfLen({-50, 0, 200}, n), t \in {"float", "int"} :
              mem = << [dtype |-> t, data |-> d] >>
    /\ dist_m = UniformDist(Len(slope), 8)
    /\ env \in {CalmAir, [CalmAir EXCEPT !.wind_v_ms = -5 * SpeedScale]}

(* fewer than two samples, series of different lengths, distances that do  *)
(* not increase                                                            *)
SimMalformed ==
    /\ dist_m \in { << >>, <<0>>, <<0, 0>>, <<8, 0>>, <<0, 8>>, <<0, 8, 16>> }
    /\ \E n \in 0..3 : slope = ConstSeq(n, 0)
    /\ \E n \in 0..3 : bearings_deg = ConstSeq(n, 0)
    /\ \E n \in 0..3 : mem = << [dtype |-> "float", data |-> ConstSeq(n, 200)] >>
    /\ env = CalmAir

InitSim ==
    /\ rb = StandardRider
    /\ slope_tan = 0 /\ bearing_deg = 0 /\ call = NoCall /\ last = NoCall
    /\ SimWellFormed \/ SimMalformed
    /\ P_flat = 0 /\ up_mult = 0 /\ down_mult = 0 /\ max_delta_w = 0
    /\ pc = "idle" /\ P = << >> /\ i = 0 /\ wbal = 0
    /\ P_smooth = << >> /\ wbal_hist = << >>
    /\ P_target = 1
    /\ v_ref = 0 /\ dt_ref = 0 /\ sim_ds = 0 /\ T = 0 /\ work_J = 0
    /\ spc = "start"
    /\ given = SimArgs
    /\ log = << >>
    /\ FuelIdle
    /\ BisIdle
    /\ ScanIdle

NextSim ==
    \/ SimStart
    \/ SimStep
    \/ SimDone

SpecSim == InitSim /\ [][NextSim]_vars

----------------------------------------------------------------------------
(* Properties of simulate *)

(* the series all have the length of the power series, there are two       *)
(* samples or more, and the second distance is beyond the first            *)
SimInputsWellFormed ==
    /\ Len(dist_m) >= 2
    /\ Len(slope) = Len(dist_m)
    /\ Len(bearings_deg) = Len(dist_m)
    /\ Len(given.P_target.data) = Len(dist_m)
    /\ dist_m[2] > dist_m[1]

(* C11: simulate returns, for every sample k of the power series it was    *)
(* given, speed[k] = speed_from_power(power[k], slope[k], bearing[k]) and  *)
(* duration[k] = ds / max(speed[k], 0.01); total_time is the sum of the    *)
(* durations and total_work the sum of power[k] * duration[k].             *)
C11_SimulateFormula ==
    (spc = "done" /\ SimInputsWellFormed) =>
        LET power == given.P_target.data
            speed == [k \in 1..Len(power) |->
                         speed_from_power(power[k] * WattUnits, slope[k],
                                          bearings_deg[k], rb, env)]
            duration == [k \in 1..Len(power) |->
                         Duration(dist_m[2] - dist_m[1], speed[k])]
        IN  /\ mem[v_ref].data = speed
            /\ mem[dt_ref].data = duration
            /\ T = SumSeq(duration)
            /\ work_J = SumSeq([k \in 1..Len(power) |-> power[k] * duration[k]])

(* C13: simulate returns no result when it is given fewer than 2 route     *)
(* samples, series of different lengths, or a second distance that is not  *)
(* beyond the first: a call that returned had well-formed series.          *)
C13_MalformedFails ==
    spc = "done" => SimInputsWellFormed

(* C15: for any power series and ds > 0 simulate raises no error and every *)
(* duration is above 0 and at most ds / 0.01.                              *)
C15_DurationBounds ==
    SimInputsWellFormed =>
        /\ spc # "IndexError"
        /\ spc = "done" =>
             \A k \in 1..Len(mem[dt_ref].data) :
                /\ mem[dt_ref].data[k] > 0
                /\ mem[dt_ref].data[k] <= sim_ds * 100 * TimeMs

----------------------------------------------------------------------------
(* A run of calls, as cli.py:139-150 makes them: pace_heuristic and        *)
(* simulate, one after the other, on the route, rider and environment of   *)
(* the run.  The caller keeps what each call returned (log).               *)

MaxCalls == 3

(* the arguments of pace_heuristic as they stand *)
PaceArgs ==
    [fn |-> "pace_heuristic",
     dist_m |-> dist_m, slope |-> slope, bearings_deg |-> bearings_deg,
     rb |-> rb, env |-> env, P_flat |-> P_flat, up_mult |-> up_mult,
     down_mult |-> down_mult, max_delta_w |-> max_delta_w]

(* the arguments of the latest call as they stand now *)
ArgsNow ==
    CASE given.fn = "pace_heuristic" -> PaceArgs
      [] given.fn = "simulate" -> SimArgs
      [] OTHER -> given

(* the latest call has returned *)
Returned ==
    \/ given.fn = "pace_heuristic" /\ pc = "done"
    \/ given.fn = "simulate" /\ spc = "done"

(* what the latest call returned *)
ResultNow ==
    IF given.fn = "pace_heuristic"
    THEN [P |-> P]
    ELSE [v |-> mem[v_ref].data, dt |-> mem[dt_ref].data,
          T |-> T, work_J |-> work_J]

(* the caller's record of the latest call, once it has returned *)
LogNow == IF Returned THEN Append(log, [args |-> given, result |-> ResultNow])
                      ELSE log

(* cli.py:139  P_target = pace_heuristic(...) *)
CallPace ==
    /\ given.fn = "none" \/ Returned
    /\ Len(LogNow) < MaxCalls
    /\ P_flat' \in {200, 240}
    /\ up_mult' = 110 /\ down_mult' = 75 /\ max_delta_w' = 30
    /\ pc' = "start" /\ P' = << >> /\ i' = 0
    /\ P_smooth' = << >> /\ wbal_hist' = << >>
    /\ given' = [PaceArgs EXCEPT !.P_flat = P_flat', !.up_mult = up_mult',
                                 !.down_mult = down_mult',
                                 !.max_delta_w = max_delta_w']
    /\ log' = LogNow
    /\ UNCHANGED <<bisVars, scanVars,
                   rb, env, physVars, fuelVars, dist_m, slope, wbal,
                   bearings_deg, mem, P_target, v_ref, dt_ref, sim_ds,
                   T, work_J, spc>>

(* cli.py:150  simulate(dist, slope, bearings, P_target, rb, env): the     *)
(* power series is the one pace_heuristic returned (a float array, in W)   *)
(* or a constant series made by the caller                                 *)
CallSimulate ==
    /\ given.fn = "none" \/ Returned
    /\ Len(LogNow) < MaxCalls
    /\ \E d \in {ConstSeq(Len(slope), 200)}
               \cup (IF pc = "done" THEN {[k \in 1..Len(P) |-> P[k] \div PaceScale]}
                                    ELSE {}) :
         /\ mem' = << [dtype |-> "float", data |-> d] >>
         /\ given' = [fn |-> "simulate", dist_m |-> dist_m, slope |-> slope,
                      bearings_deg |-> bearings_deg,
                      P_target |-> [dtype |-> "float", data |-> d],
                      rb |-> rb, env |-> env]
    /\ P_target' = 1
    /\ v_ref' = 0 /\ dt_ref' = 0
    /\ spc' = "start"
    /\ log' = LogNow
    /\ UNCHANGED <<bisVars, scanVars,
                   rb, env, physVars, fuelVars, paceVars, bearings_deg,
                   sim_ds, T, work_J>>

(* routes of SimN samples 8 m apart that climb at 3 % and then descend at  *)
(* 3 %, a rider with CP 200 W and W' 45 J, calm air                        *)
InitRun ==
    /\ rb = WithCp(StandardRider, Some(200), Some(45))
    /\ env = CalmAir
    /\ slope_tan = 0 /\ bearing_deg = 0 /\ call = NoCall /\ last = NoCall
    /\ \E m \in 0..SimN : slope = [k \in 1..SimN |-> IF k <= m THEN 300 ELSE -300]
    /\ dist_m = UniformDist(SimN, 8)
    /\ bearings_deg = ConstSeq(SimN, 0)
    /\ P_flat = 0 /\ up_mult = 0 /\ down_mult = 0 /\ max_delta_w = 0
    /\ pc = "idle" /\ P = << >> /\ i = 0 /\ wbal = 0
    /\ P_smooth = << >> /\ wbal_hist = << >>
    /\ mem = << >> /\ P_target = 0
    /\ v_ref = 0 /\ dt_ref = 0 /\ sim_ds = 0 /\ T = 0 /\ work_J = 0
    /\ spc = "idle"
    /\ given = [fn |-> "none"]
    /\ log = << >>
    /\ FuelIdle
    /\ BisIdle
    /\ ScanIdle

NextRun ==
    \/ CallPace
    \/ PaceStart
    \/ SmoothStep
    \/ SmoothDone
    \/ GuardStep
    \/ GuardDone
    \/ CallSimulate
    \/ SimStart
    \/ SimStep
    \/ SimDone

SpecRun == InitRun /\ [][NextRun]_vars

----------------------------------------------------------------------------
(* Properties of a run of calls *)

(* C12: a call of pace_heuristic or simulate with the arguments of an      *)
(* earlier call returns what the earlier call returned, whatever calls     *)
(* were made in between: the power series of pace_heuristic, and the       *)
(* speeds, durations, total time and total work of simulate.               *)
C12_SameArgsSameResult ==
    Returned =>
        \A n \in 1..Len(log) :
            log[n].args = given => log[n].result = ResultNow

(* C12 witness: the third call of a run has the arguments of the first,    *)
(* the second has others, and the third returned what the first returned:  *)
(* simulate a positive total time, pace_heuristic a series its guard capped *)
C12_Witness ==
    /\ Returned
    /\ Len(log) = 2
    /\ log[1].args = given
    /\ log[2].args # given
    /\ log[1].result = ResultNow
    /\ given.fn = "simulate" => T > 0
    /\ given.fn = "pace_heuristic" => \E k \in 1..Len(P) : P[k] # P_smooth[k]

(* C18: from the moment a call of pace_heuristic or simulate begins, and   *)
(* after it has returned, the distance, slope and bearing series, the      *)
(* RiderBike, the Environment and (for simulate) the power series it was   *)
(* given are what they were when the call began.                           *)
C18_ArgumentsUnchanged ==
    ArgsNow = given

(* C18 witness: simulate returned after writing its speeds and durations,  *)
(* the power series it was given came from an earlier pace_heuristic call  *)
(* whose guard capped a sample, and every argument is as it was            *)
C18_Witness ==
    /\ given.fn = "simulate"
    /\ Returned
    /\ Len(log) >= 1
    /\ log[Len(log)].args.fn = "pace_heuristic"
    /\ \E k \in 1..Len(P) : P[k] # P_smooth[k]
    /\ given.P_target.data = [k \in 1..Len(P) |-> P[k] \div PaceScale]
    /\ \A k \in 1..Len(P) : mem[v_ref].data[k] > 0 /\ mem[dt_ref].data[k] > 0
    /\ ArgsNow = given

----------------------------------------------------------------------------
(* models.py:7-77  the dataclasses RiderBike and Environment.  Neither     *)
(* defines __post_init__: the generated __init__ stores its arguments.     *)

(* models.py:38-44 *)
RiderBike(mass_rider_kg, mass_bike_kg, crr, cda, drivetrain_eff) ==
    [mass_rider_kg |-> mass_rider_kg, mass_bike_kg |-> mass_bike_kg,
     crr |-> crr, cda |-> cda, drivetrain_eff |-> drivetrain_eff,
     cp |-> None, w_prime_j |-> None]

(* models.py:75-77 *)
Environment(air_density, wind_u_ms, wind_v_ms) ==
    [air_density |-> air_density, wind_u_ms |-> wind_u_ms,
     wind_v_ms |-> wind_v_ms]

(* rb = RiderBike(...) *)
ConstructRiderBike ==
    /\ rb = None
    /\ \E mr \in {-72, 0, 72}, mb \in {0, 8}, a \in {-300, 0, 300},
          eff \in {0, 970, 1500} :
         rb' = RiderBike(mr, mb, 35, a, eff)
    /\ UNCHANGED <<bisVars, scanVars,
                   env, physVars, paceVars, simVars, fuelVars>>

(* env = Environment(...) *)
ConstructEnvironment ==
    /\ env = None
    /\ \E rho \in {-1225, 0, 1225} : env' = Environment(rho, 0, 0)
    /\ UNCHANGED <<bisVars, scanVars,
                   rb, physVars, paceVars, simVars, fuelVars>>

(* power_required(v, 0.0, 0.0, rb, env) on the constructed objects;        *)
(* physics.py:99-101 divides by rb.drivetrain_eff, and a float division by *)
(* 0.0 raises ZeroDivisionError                                            *)
PowerRequiredOnConstructed ==
    /\ rb # None /\ env # None
    /\ call.fn = "none"
    /\ \E s \in {SpeedScale, 10 * SpeedScale} :
         call' = IF rb.drivetrain_eff = 0
                 THEN [fn |-> "power_required", v_ms |-> s, acc_ms2 |-> 0,
                       power_w |-> 0, ret |-> 0, raised |-> "ZeroDivisionError"]
                 ELSE [fn |-> "power_required", v_ms |-> s, acc_ms2 |-> 0,
                       power_w |-> 0,
                       ret |-> power_required(s, slope_tan, bearing_deg, rb, env, 0),
                       raised |-> "no"]
    /\ last' = call
    /\ UNCHANGED <<bisVars, scanVars,
                   rb, env, slope_tan, bearing_deg, paceVars, simVars, fuelVars>>

InitModels ==
    /\ rb = None /\ env = None
    /\ slope_tan = 0 /\ bearing_deg = 0 /\ call = NoCall /\ last = NoCall
    /\ PaceIdle
    /\ SimIdle
    /\ FuelIdle
    /\ BisIdle
    /\ ScanIdle

NextModels ==
    \/ ConstructRiderBike
    \/ ConstructEnvironment
    \/ PowerRequiredOnConstructed

SpecModels == InitModels /\ [][NextModels]_vars

(* the parameters the claim calls valid *)
ValidRiderBike(r) ==
    /\ r.mass_rider_kg > 0 /\ r.mass_bike_kg > 0 /\ r.cda > 0
    /\ r.drivetrain_eff > 0 /\ r.drivetrain_eff <= EffScale

ValidEnvironment(x) == x.air_density > 0

(* C14: a RiderBike with a non-positive mass or CdA or with an efficiency  *)
(* outside (0, 1], and an Environment with a non-positive air density, are *)
(* never constructed, and so never passed to power_required.               *)
C14_InvalidNeverConstructed ==
    /\ rb # None => ValidRiderBike(rb)
    /\ env # None => ValidEnvironment(env)
    /\ call.fn = "power_required" => (ValidRiderBike(rb) /\ ValidEnvironment(env))

----------------------------------------------------------------------------
(* fueling.py:89-139  calculate_w_prime_balance(powers, times_s, cp,       *)
(* w_prime, tau).  Powers are in W, times in s, the balance w_bal in J     *)
(* (a recovery is rounded down to a whole joule), the returned fractions   *)
(* in 1/FracScale.  wpb holds the arguments.                               *)

FracScale == 10000

(* fueling.py:94  tau: float = 546.0 *)
DefaultTau == 546

(* fueling.py:117  np.ones_like(powers) *)
ones_like(a) == [k \in 1..Len(a) |-> FracScale]

(* a clip without its lower bound *)
clip_upper(x, lo, hi) == Min(x, hi)

(* fueling.py:136  np.clip(w_bal[i], 0, w_prime) *)
clip(x, lo, hi) == Min(Max(x, lo), hi)

(* fueling.py:128  w_bal[i - 1] - power_above_cp * dt *)
Expenditure(w, power_above_cp, d) == w - power_above_cp * d

(* fueling.py:131-133  power_below_cp * (w_prime - w_bal[i - 1]) * dt / tau *)
(* / w_prime, added to w_bal[i - 1] *)
Recovery(w, power_below_cp, d, tau, w_prime) ==
    w + MulDiv(power_below_cp * d, w_prime - w, w_prime) \div tau

(* fueling.py:139  w_bal / w_prime *)
Fraction(w, w_prime) == (w * FracScale) \div w_prime

(* fueling.py:115-120 *)
FuelStart ==
    /\ fpc = "start"
    /\ IF wpb.cp = None \/ wpb.w_prime = None
       THEN /\ fret' = ones_like(wpb.powers)
            /\ fpc' = "done"
            /\ UNCHANGED <<w_bal, i>>
       ELSE IF Len(wpb.powers) = 0
       THEN /\ fpc' = "IndexError"
            /\ UNCHANGED <<w_bal, i, fret>>
       ELSE /\ w_bal' = [k \in 1..Len(wpb.powers) |->
                            IF k = 1 THEN wpb.w_prime[1] ELSE 0]
            /\ i' = 1
            /\ fpc' = "loop"
            /\ fret' = fret
    /\ UNCHANGED <<bisVars, scanVars,
                   rb, env, physVars, paceInputs, paceLocals, simVars, wpb>>

(* fueling.py:122-136  one pass of the loop; the source's w_bal[i] is      *)
(* w_bal[i + 1] here, its powers[i - 1] is powers[i]                       *)
FuelStep ==
    /\ fpc = "loop"
    /\ i < Len(wpb.powers)
    /\ IF i + 1 > Len(wpb.times_s)
       THEN /\ fpc' = "IndexError"
            /\ UNCHANGED <<w_bal, i>>
       ELSE LET d == wpb.times_s[i + 1] - wpb.times_s[i]
                power_above_cp == Max(0, wpb.powers[i] - wpb.cp[1])
                power_below_cp == wpb.cp[1] - wpb.powers[i]
                next == IF power_above_cp > 0
                        THEN Expenditure(w_bal[i], power_above_cp, d)
                        ELSE Recovery(w_bal[i], power_below_cp, d,
                                      wpb.tau, wpb.w_prime[1])
            IN  /\ w_bal' = [w_bal EXCEPT ![i + 1] = clip(next, 0, wpb.w_prime[1])]
                /\ i' = i + 1
                /\ fpc' = fpc
    /\ UNCHANGED <<bisVars, scanVars,
                   rb, env, physVars, paceInputs, paceLocals, simVars, wpb, fret>>

(* fueling.py:139  return w_bal / w_prime *)
FuelDone ==
    /\ fpc = "loop"
    /\ i >= Len(wpb.powers)
    /\ fret' = [k \in 1..Len(w_bal) |-> Fraction(w_bal[k], wpb.w_prime[1])]
    /\ fpc' = "done"
    /\ UNCHANGED <<bisVars, scanVars,
                   rb, env, physVars, paceInputs, paceLocals, simVars, wpb,
                   w_bal, i>>

----------------------------------------------------------------------------
(* Inputs of calculate_w_prime_balance *)

FuelN == 3

(* power series of 0..FuelN samples below and above CP; time series of the *)
(* same length or one sample short, in any order, with steps of 0, 60 and  *)
(* 600 s; CP 250 W and W' 20 kJ, each given or None                        *)
InitFuel ==
    /\ rb = StandardRider /\ env = CalmAir
    /\ slope_tan = 0 /\ bearing_deg = 0 /\ call = NoCall /\ last = NoCall
    /\ PaceIdle
    /\ SimIdle
    /\ BisIdle
    /\ ScanIdle
    /\ \E n \in 0..FuelN :
         \E p \in SeqsOfLen({200, 500}, n),
            t \in SeqsOfLen({0, 60, 600}, n)
                  \cup (IF n > 0 THEN SeqsOfLen({0, 60}, n - 1) ELSE {}),
            c \in {None, Some(250)}, w \in {None, Some(20000)} :
              wpb = [powers |-> p, times_s |-> t, cp |-> c, w_prime |-> w,
                     tau |-> DefaultTau]
    /\ w_bal = << >> /\ fpc = "start" /\ fret = << >>

NextFuel ==
    \/ FuelStart
    \/ FuelStep
    \/ FuelDone

SpecFuel == InitFuel /\ [][NextFuel]_vars

(* C20: the series calculate_w_prime_balance returns has one element per   *)
(* power sample, its first element is 1 and every element is in [0, 1],    *)
(* for any power series and any time series with CP and W' > 0, however    *)
(* long power stays above CP; when CP or W' is None every element is 1.    *)
C20_BalanceInRange ==
    /\ fpc = "loop" =>
         \A k \in 1..Len(w_bal) : 0 <= w_bal[k] /\ w_bal[k] <= wpb.w_prime[1]
    /\ fpc = "done" =>
         /\ Len(fret) = Len(wpb.powers)
         /\ Len(fret) > 0 => fret[1] = FracScale
         /\ \A k \in 1..Len(fret) : 0 <= fret[k] /\ fret[k] <= FracScale
         /\ (wpb.cp = None \/ wpb.w_prime = None)
               => \A k \in 1..Len(fret) : fret[k] = FracScale

(* C20 witness: with CP and W' given, power stays above CP until the       *)
(* balance would be negative: the series starts at 1, falls to a value     *)
(* strictly between 0 and 1 and then is 0                                  *)
C20_Witness ==
    /\ fpc = "done"
    /\ wpb.cp # None /\ wpb.w_prime # None
    /\ Len(fret) = 3
    /\ wpb.powers[1] > wpb.cp[1] /\ wpb.powers[2] > wpb.cp[1]
    /\ fret[1] = FracScale
    /\ 0 < fret[2] /\ fret[2] < FracScale
    /\ fret[3] = 0
    /\ Expenditure(w_bal[2], wpb.powers[2] - wpb.cp[1],
                   wpb.times_s[3] - wpb.times_s[2]) < 0

----------------------------------------------------------------------------
(* physics.py:137-151  speed_from_power, pass by pass.                     *)
(* A speed of the bracket is <<u, f, g>>: u units of 1/SpeedScale m/s plus *)
(* f / Limb plus g / Limb^2 of a unit, so that the 50 halvings of the      *)
(* bracket are exact here, as they are to the last bit in the source's     *)
(* doubles.  power_required is taken at the whole units of the midpoint.   *)

Limb == 2 ^ 24

Exact(u) == <<u, 0, 0>>
Units(x) == x[1]

(* the carries and borrows of a sum or difference of two speeds *)
Norm(x) ==
    LET f == x[2] + x[3] \div Limb
    IN  <<x[1] + f \div Limb, f % Limb, x[3] % Limb>>

Plus(a, b) == Norm(<<a[1] + b[1], a[2] + b[2], a[3] + b[3]>>)
Minus(a, b) == Norm(<<a[1] - b[1], a[2] - b[2], a[3] - b[3]>>)

Half(a) ==
    <<a[1] \div 2,
      (a[2] + (a[1] % 2) * Limb) \div 2,
      (a[3] + (a[2] % 2) * Limb) \div 2>>

LessEq(a, b) ==
    \/ a[1] < b[1]
    \/ a[1] = b[1] /\ a[2] < b[2]
    \/ a[1] = b[1] /\ a[2] = b[2] /\ a[3] <= b[3]

RECURSIVE HalfN(_, _)
(* x halved n times (the half is worked out before the next halving) *)
HalfN(x, n) ==
    IF n = 0 THEN x
    ELSE LET h == Half(x)
         IN  IF h = << >> THEN h ELSE HalfN(h, n - 1)

(* a midpoint that is the lower end of the bracket *)
Midpoint_low(a, b) == a

(* physics.py:143, 151  0.5 * (v_low + v_high) *)
Midpoint(a, b) == Half(Plus(a, b))

(* the test of physics.py:146 with its two branches exchanged *)
BracketAfter_swapped(br, v_mid, power_mid, p) ==
    IF power_mid > p THEN <<v_mid, br[2]>> ELSE <<br[1], v_mid>>

(* physics.py:146-149  the bracket <<v_low, v_high>> after the test of     *)
(* power_mid against power_w                                              *)
BracketAfter(br, v_mid, power_mid, p) ==
    IF power_mid > p THEN <<br[1], v_mid>> ELSE <<v_mid, br[2]>>

(* physics.py:138-139 *)
BisectStart ==
    /\ bpc = "start"
    /\ v_low' = Exact(0)
    /\ v_high' = Exact(SearchHigh)
    /\ n_pass' = 0
    /\ bpc' = "loop"
    /\ UNCHANGED <<rb, env, physVars, paceVars, simVars, fuelVars, scanVars,
                   power_w, v_ret>>

(* physics.py:142-149  one pass of the loop *)
BisectPass ==
    /\ bpc = "loop"
    /\ n_pass < BisectionIterations
    /\ LET v_mid == Midpoint(v_low, v_high)
           power_mid == power_required(Units(v_mid), slope_tan, bearing_deg,
                                       rb, env, 0)
       IN  \E br \in {BracketAfter(<<v_low, v_high>>, v_mid, power_mid, power_w)} :
               v_low' = br[1] /\ v_high' = br[2]
    /\ n_pass' = n_pass + 1
    /\ UNCHANGED <<rb, env, physVars, paceVars, simVars, fuelVars, scanVars,
                   power_w, v_ret, bpc>>

(* physics.py:151  the range is used up: return 0.5 * (v_low + v_high) *)
BisectReturn ==
    /\ bpc = "loop"
    /\ n_pass >= BisectionIterations
    /\ v_ret' = Midpoint(v_low, v_high)
    /\ bpc' = "done"
    /\ UNCHANGED <<rb, env, physVars, paceVars, simVars, fuelVars, scanVars,
                   power_w, v_low, v_high, n_pass>>

(* a wind of 15 m/s to the north: a tailwind at bearing 0 *)
Gale == [air_density |-> 1225, wind_u_ms |-> 0, wind_v_ms |-> 15 * SpeedScale]

InitBisect ==
    /\ rb \in PhysicsRiders
    /\ \/ env \in Environments /\ bearing_deg \in {0, 18000}
       \/ env = Gale /\ bearing_deg = 0
    /\ slope_tan \in Slopes
    /\ power_w \in Powers \cup {58 * WattUnits}
    /\ call = NoCall /\ last = NoCall
    /\ PaceIdle
    /\ SimIdle
    /\ FuelIdle
    /\ ScanIdle
    /\ v_low = << >> /\ v_high = << >> /\ n_pass = 0 /\ v_ret = << >>
    /\ bpc = "start"

NextBisect ==
    \/ BisectStart
    \/ BisectPass
    \/ BisectReturn

SpecBisect == InitBisect /\ [][NextBisect]_vars

(* the width of the bracket *)
Width == Minus(v_high, v_low)

(* C26: speed_from_power terminates for every input after exactly 50       *)
(* halvings of the bracket that starts at [0, 60/3.6 m/s], with no         *)
(* convergence test, and returns the midpoint of the final bracket: every  *)
(* step of a running call is one more halving, up to the 50th, or the      *)
(* return; after n passes the bracket is 2^n times narrower than at the    *)
(* start; the return is possible after 50 passes and no sooner; nothing    *)
(* follows it.                                                             *)
C26_FiftyHalvings ==
    /\ [](bpc = "loop" => /\ n_pass <= 50
                          /\ n_pass < 50 => ~ENABLED BisectReturn
                          /\ n_pass = 50 => ENABLED BisectReturn
                          /\ Width = HalfN(Exact(SearchHigh), n_pass))
    /\ [](bpc = "done" => /\ n_pass = 50
                          /\ ~ENABLED NextBisect
                          /\ Width = HalfN(Exact(SearchHigh), 50)
                          /\ Plus(v_ret, v_ret) = Plus(v_low, v_high))
    /\ [][bpc = "loop" =>
            \/ n_pass < 50 /\ n_pass' = n_pass + 1 /\ bpc' = "loop"
            \/ n_pass = 50 /\ bpc' = "done"]_vars

(* C26 witness: a call that returned after 50 passes although the power at *)
(* the lower end of its bracket, a midpoint of an earlier pass, is exactly *)
(* the requested power                                                     *)
C26_Witness ==
    /\ bpc = "done" /\ n_pass = 50
    /\ v_low # Exact(0)
    /\ power_required(Units(v_low), slope_tan, bearing_deg, rb, env, 0) = power_w
    /\ LessEq(v_low, v_ret) /\ v_ret # v_low

(* the midpoint of pass k when every pass before it raised v_low *)
UpperMid(k) == Minus(Exact(SearchHigh), HalfN(Exact(SearchHigh), k))

(* the midpoint of pass k when every pass before it lowered v_high *)
LowerMid(k) == HalfN(Exact(SearchHigh), k)

(* power_required at the whole units of speed x, for the call's arguments *)
PowerAt(x) == power_required(Units(x), slope_tan, bearing_deg, rb, env, 0)

(* the bracket of speed_from_power as it should be at every pass: ordered  *)
(* within [0, 60/3.6], 2^n_pass times narrower than at the start, with     *)
(* power_required(v_low) <= power_w once v_low has left 0 and              *)
(* power_required(v_high) > power_w once v_high has left 60/3.6            *)
BracketInvariant ==
    /\ LessEq(Exact(0), v_low) /\ LessEq(v_low, v_high)
    /\ LessEq(v_high, Exact(SearchHigh))
    /\ Width = HalfN(Exact(SearchHigh), n_pass)
    /\ v_low # Exact(0) => PowerAt(v_low) <= power_w
    /\ v_high # Exact(SearchHigh) => PowerAt(v_high) > power_w

(* x is within 0.01 m/s of y *)
Near(x, y) ==
    /\ LessEq(x, Plus(y, Exact(FloorSpeed)))
    /\ LessEq(y, Plus(x, Exact(FloorSpeed)))

(* C29, as claimed: at every pass 0 <= v_low <= v_high <= 60/3.6 and the   *)
(* width halves; power_required(v_low) <= power_w once v_low has moved,    *)
(* power_required(v_high) > power_w once v_high has moved.  The returned   *)
(* speed lies in [0, 60/3.6], near 60/3.6 when the requested power exceeds *)
(* power_required at the upper bound, near 0 when power_required exceeds   *)
(* the requested power at every positive speed.                            *)
C29_SaturatesAboveUpperBound ==
    /\ bpc \in {"loop", "done"} => BracketInvariant
    /\ bpc = "done" =>
         /\ LessEq(Exact(0), v_ret) /\ LessEq(v_ret, Exact(SearchHigh))
         /\ power_w > PowerAt(Exact(SearchHigh)) => Near(v_ret, Exact(SearchHigh))
         /\ (\A k \in 1..50 : PowerAt(LowerMid(k)) > power_w) => Near(v_ret, Exact(0))

(* C29, amended: the bracket invariant holds at every pass and the         *)
(* returned speed lies in [0, 60/3.6].  It is within 2^-50 of 60/3.6 when  *)
(* the requested power is at least power_required at every midpoint        *)
(* 60/3.6 * (1 - 2^-k), which a requested power of power_required(60/3.6)  *)
(* or more is with zero wind; it is within 2^-50 of 0 when power_required  *)
(* exceeds the requested power at every midpoint 60/3.6 * 2^-k, as it does *)
(* when it exceeds it at every positive speed.                             *)
C29_BracketInvariant ==
    /\ bpc \in {"loop", "done"} => BracketInvariant
    /\ bpc = "done" =>
         /\ LessEq(Exact(0), v_ret) /\ LessEq(v_ret, Exact(SearchHigh))
         /\ (\A k \in 1..50 : PowerAt(UpperMid(k)) <= power_w)
              => v_ret = UpperMid(51)
         /\ (ZeroWind /\ power_w >= PowerAt(Exact(SearchHigh)))
              => v_ret = UpperMid(51)
         /\ (\A k \in 1..50 : PowerAt(LowerMid(k)) > power_w)
              => v_ret = LowerMid(51)
         /\ v_ret = UpperMid(51) => Near(v_ret, Exact(SearchHigh))
         /\ v_ret = LowerMid(51) => Near(v_ret, Exact(0))

(* C29 witness: a call that returned a speed inside the bracket's range,   *)
(* both ends of its bracket having moved: the power at the lower end is at *)
(* most the requested power, the power at the upper end is above it        *)
C29_Witness ==
    /\ bpc = "done"
    /\ v_low # Exact(0) /\ v_high # Exact(SearchHigh)
    /\ PowerAt(v_low) <= power_w /\ PowerAt(v_high) > power_w
    /\ Width = HalfN(Exact(SearchHigh), 50)
    /\ ~Near(v_ret, Exact(0)) /\ ~Near(v_ret, Exact(SearchHigh))

(* a call with a tailwind of 15 m/s and a requested power above            *)
(* power_required at 60/3.6 m/s that returned a speed near 0, the upper    *)
(* end of its bracket having moved at every pass                           *)
C29_GaleReturnsZero ==
    /\ bpc = "done"
    /\ env = Gale
    /\ power_w > PowerAt(Exact(SearchHigh))
    /\ v_low = Exact(0) /\ v_high # Exact(SearchHigh)
    /\ PowerAt(v_high) > power_w
    /\ Near(v_ret, Exact(0))

----------------------------------------------------------------------------
(* cli.py:280-366  optimize_start: the scan over the start hours.           *)
(* The forecast is a series of hourly samples; a sample holds the air      *)
(* density its temperature, pressure and humidity give (cli.py:80), the    *)
(* wind speed (1/SpeedScale m/s) and the direction the wind comes from     *)
(* (1/100 degree).  Each scanned hour calls pace_heuristic and simulate,   *)
(* whose steps are the actions above.                                      *)

NHours == 3

Weathers ==
    { [rho |-> 1225, wind_speed_mps |-> 0, wind_dir_deg |-> 0],
      [rho |-> 1225, wind_speed_mps |-> 5 * SpeedScale, wind_dir_deg |-> 0],
      [rho |-> 1225, wind_speed_mps |-> 5 * SpeedScale, wind_dir_deg |-> 18000] }

(* weather.py:37-46  u = -speed * sin(dir), v = -speed * cos(dir) *)
met_wdir_to_uv(speed_mps, dir_deg_from) ==
    << -((speed_mps * SinDeg(dir_deg_from)) \div DirScale),
       -((speed_mps * CosDeg(dir_deg_from)) \div DirScale) >>

(* cli.py:301-303, 108  the Environment built from a weather sample *)
build_rb_env(sample) ==
    LET uv == met_wdir_to_uv(sample.wind_speed_mps, sample.wind_dir_deg)
    IN  [air_density |-> sample.rho, wind_u_ms |-> uv[1], wind_v_ms |-> uv[2]]

(* cli.py:292  list(range(a, b + 1)) *)
Range(a, b) == [k \in 1..Max(0, b + 1 - a) |-> a + k - 1]

(* the test of cli.py:319 written best[1] >= T *)
Better_orEqual(b, t) == b = None \/ b[1].T >= t

(* cli.py:319  best is None or best[1] > T *)
Better(b, t) == b = None \/ b[1].T > t

(* cli.py:281-294 *)
ScanStart ==
    /\ opc = "start"
    /\ hours' = Range(start_hour, end_hour)
    /\ results' = << >>
    /\ best' = None
    /\ opc' = "scan"
    /\ UNCHANGED <<rb, env, physVars, paceVars, simVars, fuelVars, bisVars,
                   start_hour, end_hour, hourly, hr, out, exported>>

(* cli.py:296-315  the next hour of the list: its weather sample is read   *)
(* (weather.py:21-27, an index past the series raises IndexError), the     *)
(* Environment is built and pace_heuristic is called                       *)
ScanFetch ==
    /\ opc = "scan"
    /\ Len(results) < Len(hours)
    /\ hr' = hours[Len(results) + 1]
    /\ IF hr' + 1 > Len(hourly)
       THEN /\ opc' = "IndexError"
            /\ UNCHANGED <<env, pc, P, i, wbal, P_smooth, wbal_hist>>
       ELSE /\ env' = build_rb_env(hourly[hr' + 1])
            /\ pc' = "start" /\ P' = << >> /\ i' = 0 /\ wbal' = 0
            /\ P_smooth' = << >> /\ wbal_hist' = << >>
            /\ opc' = "pace"
    /\ UNCHANGED <<rb, physVars, paceInputs, simVars, fuelVars, bisVars,
                   start_hour, end_hour, hourly, hours, results, best, out,
                   exported>>

(* cli.py:316  simulate(dist, slope, bearings, P_target, rb, env) on the   *)
(* series pace_heuristic returned                                          *)
ScanSimulate ==
    /\ opc = "pace"
    /\ pc = "done"
    /\ mem' = << [dtype |-> "float",
                  data |-> [k \in 1..Len(P) |-> P[k] \div PaceScale]] >>
    /\ P_target' = 1
    /\ v_ref' = 0 /\ dt_ref' = 0
    /\ spc' = "start"
    /\ opc' = "sim"
    /\ UNCHANGED <<rb, env, physVars, paceVars, fuelVars, bisVars,
                   bearings_deg, sim_ds, T, work_J, given, log,
                   start_hour, end_hour, hourly, hours, hr, results, best,
                   out, exported>>

(* cli.py:317-320  the hour's result is appended and best is updated; log  *)
(* keeps the series and the total time computed for the hour               *)
ScanRecord ==
    /\ opc = "sim"
    /\ spc = "done"
    /\ results' = Append(results, [hour |-> hr, T |-> T,
                                   rho |-> env.air_density,
                                   weather |-> hourly[hr + 1]])
    /\ best' = IF Better(best, T)
               THEN Some([hr |-> hr, T |-> T, rho |-> env.air_density,
                          weather |-> hourly[hr + 1], P_target |-> P])
               ELSE best
    /\ log' = Append(log, [hour |-> hr, T |-> T, P_target |-> P])
    /\ opc' = "scan"
    /\ UNCHANGED <<rb, env, physVars, paceVars, fuelVars, bisVars,
                   bearings_deg, mem, P_target, v_ref, dt_ref, sim_ds, T,
                   work_J, spc, given,
                   start_hour, end_hour, hourly, hours, hr, out, exported>>

(* cli.py:322-366  the list is used up: the assertion, the dictionary      *)
(* written to optimize_start.json and the series handed to the exports     *)
ScanEnd ==
    /\ opc = "scan"
    /\ Len(results) >= Len(hours)
    /\ IF best = None
       THEN /\ opc' = "AssertionError"
            /\ UNCHANGED <<out, exported>>
       ELSE /\ out' = [results |-> [k \in 1..Len(results) |->
                                      [hour |-> results[k].hour,
                                       time_s |-> results[k].T]],
                       best_hour |-> best[1].hr,
                       best_time_s |-> best[1].T]
            /\ exported' = best[1].P_target
            /\ opc' = "done"
    /\ UNCHANGED <<rb, env, physVars, paceVars, simVars, fuelVars, bisVars,
                   start_hour, end_hour, hourly, hours, hr, results, best>>

(* a route of SimN samples 8 m apart that climbs, runs flat and descends,  *)
(* a rider with CP 200 W and W' 45 J, a forecast of NHours hours and every *)
(* pair of hour indices from 0 to NHours                                   *)
InitScan ==
    /\ rb = WithCp(StandardRider, Some(200), Some(45))
    /\ env = CalmAir
    /\ slope_tan = 0 /\ bearing_deg = 0 /\ call = NoCall /\ last = NoCall
    /\ dist_m = UniformDist(SimN, 8)
    /\ slope = [k \in 1..SimN |-> CASE k = 1 -> 300 [] k = 2 -> 0 [] OTHER -> -300]
    /\ bearings_deg = ConstSeq(SimN, 0)
    /\ P_flat = 200 /\ up_mult = 110 /\ down_mult = 75 /\ max_delta_w = 30
    /\ pc = "idle" /\ P = << >> /\ i = 0 /\ wbal = 0
    /\ P_smooth = << >> /\ wbal_hist = << >>
    /\ mem = << >> /\ P_target = 0
    /\ v_ref = 0 /\ dt_ref = 0 /\ sim_ds = 0 /\ T = 0 /\ work_J = 0
    /\ spc = "idle" /\ given = << >> /\ log = << >>
    /\ FuelIdle
    /\ BisIdle
    /\ hourly \in SeqsOfLen(Weathers, NHours)
    /\ start_hour \in 0..NHours
    /\ end_hour \in 0..NHours
    /\ hours = << >> /\ hr = 0 /\ results = << >> /\ best = << >>
    /\ out = << >> /\ exported = << >>
    /\ opc = "start"

NextScan ==
    \/ ScanStart
    \/ ScanFetch
    \/ PaceStart
    \/ SmoothStep
    \/ SmoothDone
    \/ GuardStep
    \/ GuardDone
    \/ ScanSimulate
    \/ SimStart
    \/ SimStep
    \/ SimDone
    \/ ScanRecord
    \/ ScanEnd

SpecScan == InitScan /\ [][NextScan]_vars

(* the scan is over: every hour of the list was tried *)
ScanOver == opc \in {"done", "AssertionError"}

(* C27: in optimize_start, after the scan over the hours                   *)
(* start_hour..end_hour, best is never None and the assertion that ends    *)
(* the scan holds, for every start_hour and end_hour the command accepts.  *)
C27_BestNeverNone ==
    ScanOver => best # None /\ opc # "AssertionError"

(* what holds instead: after the scan best is None exactly when            *)
(* start_hour > end_hour, where the list of hours is empty                 *)
C27_NoneWhenEmpty ==
    ScanOver => (best = None <=> start_hour > end_hour)

(* the command was given a start hour after its end hour and stopped on    *)
(* its assertion                                                           *)
C27_Witness ==
    /\ opc = "AssertionError"
    /\ start_hour > end_hour
    /\ hours = << >>
    /\ best = None

(* the hours the scan went through *)
Scanned == { results[k].hour : k \in 1..Len(results) }

(* the entry of the scan's history for hour h *)
Logged(h) == log[CHOOSE k \in 1..Len(log) : log[k].hour = h]

(* C30: when optimize_start scans a non-empty range of hours, the reported *)
(* best_hour is a scanned hour whose simulated total time is minimal among *)
(* the scanned hours, the earliest such hour, best_time_s is that hour's   *)
(* total time, and the power series kept for export is the one computed    *)
(* for that hour.                                                          *)
C30_BestHour ==
    (opc = "done" /\ hours # << >>) =>
        /\ Scanned = { hours[k] : k \in 1..Len(hours) }
        /\ Len(log) = Len(results)
        /\ \A k \in 1..Len(results) :
             /\ log[k].hour = results[k].hour /\ log[k].T = results[k].T
             /\ out.results[k] = [hour |-> results[k].hour, time_s |-> results[k].T]
        /\ out.best_hour \in Scanned
        /\ out.best_time_s = Logged(out.best_hour).T
        /\ \A h \in Scanned :
             /\ Logged(h).T >= out.best_time_s
             /\ Logged(h).T = out.best_time_s => out.best_hour <= h
        /\ exported = Logged(out.best_hour).P_target

(* C30 witness: a scan of three hours where the first is slower than the   *)
(* second and the third is as fast as the second: the second is reported   *)
C30_Witness ==
    /\ opc = "done"
    /\ Len(results) = 3
    /\ results[1].T > results[2].T
    /\ results[3].T = results[2].T
    /\ out.best_hour = results[2].hour
    /\ out.best_time_s = results[2].T
    /\ exported # << >>

====
